---- MODULE Spec2Model ----
(***************************************************************************)
(* Verification model of the baoba_project reporting utilities:            *)
(*   - metric extraction (extrai_metricas / extract_metrics),              *)
(*   - per-service enrichment (calcula_interacoes / process_service),      *)
(*   - period comparison (ComparadorMonitoramentoPoPeriodo).               *)
(*                                                                         *)
(* Python values are tagged records; text is a tuple of one-character      *)
(* strings, so that JSON decoding and encoding are computed character by   *)
(* character.  The text alphabet is: space, the JSON punctuation           *)
(* { } [ ] : , " , the sign characters, the decimal digits and letters.    *)
(* Floats, escapes and control characters are outside the alphabet.        *)
(***************************************************************************)
EXTENDS Integers, Sequences, FiniteSets, TLC

(***************************************************************************)
(* Bounds of the model.                                                    *)
(***************************************************************************)
\* largest per-topic count of a period snapshot (besides the worked example)
MaxCont == 1
\* longest list of requested metric keys
MaxKeys == 3
\* largest integer magnitude stored in a metrics field
MaxValor == 3

(***************************************************************************)
(* Python values.                                                          *)
(***************************************************************************)
PyInt(n) == [t |-> "int", n |-> n]

PyStr(s) == [t |-> "str", s |-> s]

PyBool(b) == [t |-> "bool", b |-> b]

PyList(l) == [t |-> "list", l |-> l]

\* a dict is the sequence of its <<key, value>> items in insertion order
PyDict(d) == [t |-> "dict", d |-> d]

PyNone == [t |-> "none"]

DictKeys(d) == {d[i][1] : i \in DOMAIN d}

DictHas(d, k) == \E i \in DOMAIN d : d[i][1] = k

\* dict.get(k, default)
DictGet(d, k, default) ==
  IF DictHas(d, k) THEN d[CHOOSE i \in DOMAIN d : d[i][1] = k][2] ELSE default

\* d[k] = v : an existing key keeps its position, a new key is appended
DictSet(d, k, v) ==
  IF DictHas(d, k)
  THEN [i \in DOMAIN d |-> IF d[i][1] = k THEN <<k, v>> ELSE d[i]]
  ELSE Append(d, <<k, v>>)

\* dict equality ignores insertion order
DictEq(d1, d2) ==
  /\ DictKeys(d1) = DictKeys(d2)
  /\ \A k \in DictKeys(d1) : DictGet(d1, k, PyNone) = DictGet(d2, k, PyNone)

(***************************************************************************)
(* Outcome of a call: a returned value or a raised exception.              *)
(***************************************************************************)
Ret(v) == [t |-> "ret", v |-> v]

Raise(e) == [t |-> "raise", exc |-> e]

(***************************************************************************)
(* Text helpers.                                                           *)
(***************************************************************************)
IsDigit(c) == c \in {"0", "1", "2", "3", "4", "5", "6", "7", "8", "9"}

DigitVal(c) ==
  CASE c = "0" -> 0 [] c = "1" -> 1 [] c = "2" -> 2 [] c = "3" -> 3
    [] c = "4" -> 4 [] c = "5" -> 5 [] c = "6" -> 6 [] c = "7" -> 7
    [] c = "8" -> 8 [] c = "9" -> 9

DigitChar(n) ==
  CASE n = 0 -> "0" [] n = 1 -> "1" [] n = 2 -> "2" [] n = 3 -> "3"
    [] n = 4 -> "4" [] n = 5 -> "5" [] n = 6 -> "6" [] n = 7 -> "7"
    [] n = 8 -> "8" [] n = 9 -> "9"

\* index of the first non-blank character at or after i
RECURSIVE SkipWs(_, _)
SkipWs(s, i) == IF i <= Len(s) /\ s[i] = " " THEN SkipWs(s, i + 1) ELSE i

\* index of the first non-digit at or after i
RECURSIVE ScanDigits(_, _)
ScanDigits(s, i) == IF i <= Len(s) /\ IsDigit(s[i]) THEN ScanDigits(s, i + 1) ELSE i

\* value of the decimal digits s[i .. j-1]
RECURSIVE NatOf(_, _, _)
NatOf(s, i, j) == IF j <= i THEN 0 ELSE NatOf(s, i, j - 1) * 10 + DigitVal(s[j - 1])

\* index of the next double quote at or after i, 0 when there is none
RECURSIVE FindQuote(_, _)
FindQuote(s, i) ==
  IF i > Len(s) THEN 0 ELSE IF s[i] = "\"" THEN i ELSE FindQuote(s, i + 1)

\* s[i:i+len(lit)] == lit
StartsWith(s, i, lit) ==
  /\ i + Len(lit) - 1 <= Len(s)
  /\ SubSeq(s, i, i + Len(lit) - 1) = lit

(***************************************************************************)
(* json.loads on the model's alphabet.  A scan returns                     *)
(* [ok |-> TRUE, v |-> value, i |-> index after the value] or Fail.        *)
(***************************************************************************)
Fail == [ok |-> FALSE]

Ok(v, i) == [ok |-> TRUE, v |-> v, i |-> i]

\* NUMBER_RE: -?(0|[1-9][0-9]*)
match_number(s, i) ==
  LET neg == i <= Len(s) /\ s[i] = "-"
      b == IF neg THEN i + 1 ELSE i
      e == IF b <= Len(s) /\ s[b] = "0" THEN b + 1 ELSE ScanDigits(s, b)
  IN IF e = b THEN Fail
     ELSE Ok(PyInt(IF neg THEN 0 - NatOf(s, b, e) ELSE NatOf(s, b, e)), e)

RECURSIVE scan_once(_, _)
RECURSIVE JSONObjectItems(_, _, _)
RECURSIVE JSONArrayItems(_, _, _)

\* i is the index after the opening quote of a property name
JSONObjectItems(s, i, pairs) ==
  LET q == FindQuote(s, i) IN
  IF q = 0 THEN Fail ELSE
  LET key == SubSeq(s, i, q - 1)
      c == SkipWs(s, q + 1)
  IN IF ~(c <= Len(s) /\ s[c] = ":") THEN Fail ELSE
  LET r == scan_once(s, SkipWs(s, c + 1)) IN
  IF ~r.ok THEN Fail ELSE
  LET pairs2 == DictSet(pairs, key, r.v)
      e == SkipWs(s, r.i)
  IN IF e > Len(s) THEN Fail
     ELSE IF s[e] = "}" THEN Ok(PyDict(pairs2), e + 1)
     ELSE IF s[e] # "," THEN Fail
     ELSE LET n == SkipWs(s, e + 1)
          IN IF n <= Len(s) /\ s[n] = "\""
             THEN JSONObjectItems(s, n + 1, pairs2)
             ELSE Fail

\* i is the index after "{"
JSONObject(s, i) ==
  LET n == SkipWs(s, i) IN
  IF n > Len(s) THEN Fail
  ELSE IF s[n] = "}" THEN Ok(PyDict(<<>>), n + 1)
  ELSE IF s[n] = "\"" THEN JSONObjectItems(s, n + 1, <<>>)
  ELSE Fail

\* i is the index of the next array item
JSONArrayItems(s, i, items) ==
  LET r == scan_once(s, i) IN
  IF ~r.ok THEN Fail ELSE
  LET e == SkipWs(s, r.i) IN
  IF e > Len(s) THEN Fail
  ELSE IF s[e] = "]" THEN Ok(PyList(Append(items, r.v)), e + 1)
  ELSE IF s[e] # "," THEN Fail
  ELSE JSONArrayItems(s, SkipWs(s, e + 1), Append(items, r.v))

\* i is the index after "["
JSONArray(s, i) ==
  LET n == SkipWs(s, i) IN
  IF n > Len(s) THEN Fail
  ELSE IF s[n] = "]" THEN Ok(PyList(<<>>), n + 1)
  ELSE JSONArrayItems(s, n, <<>>)

scan_once(s, i) ==
  IF i > Len(s) THEN Fail
  ELSE IF s[i] = "\""
       THEN LET q == FindQuote(s, i + 1)
            IN IF q = 0 THEN Fail ELSE Ok(PyStr(SubSeq(s, i + 1, q - 1)), q + 1)
  ELSE IF s[i] = "{" THEN JSONObject(s, i + 1)
  ELSE IF s[i] = "[" THEN JSONArray(s, i + 1)
  ELSE IF StartsWith(s, i, <<"n", "u", "l", "l">>) THEN Ok(PyNone, i + 4)
  ELSE IF StartsWith(s, i, <<"t", "r", "u", "e">>) THEN Ok(PyBool(TRUE), i + 4)
  ELSE IF StartsWith(s, i, <<"f", "a", "l", "s", "e">>) THEN Ok(PyBool(FALSE), i + 5)
  ELSE match_number(s, i)

\* json.loads(s): [ok |-> TRUE, v |-> value], or Fail for JSONDecodeError
json_loads(s) ==
  LET r == scan_once(s, SkipWs(s, 1)) IN
  IF ~r.ok THEN Fail
  ELSE IF SkipWs(s, r.i) # Len(s) + 1 THEN Fail
  ELSE [ok |-> TRUE, v |-> r.v]

(***************************************************************************)
(* json.dumps with the default separators ", " and ": ".                   *)
(***************************************************************************)
RECURSIVE NatToText(_)
NatToText(n) ==
  IF n < 10 THEN <<DigitChar(n)>> ELSE Append(NatToText(n \div 10), DigitChar(n % 10))

IntToText(n) == IF n < 0 THEN <<"-">> \o NatToText(0 - n) ELSE NatToText(n)

RECURSIVE json_dumps(_)
RECURSIVE DumpItems(_, _)
RECURSIVE DumpList(_, _)

DumpItems(d, i) ==
  IF i > Len(d) THEN <<>>
  ELSE (IF i > 1 THEN <<",", " ">> ELSE <<>>)
       \o <<"\"">> \o d[i][1] \o <<"\"", ":", " ">> \o json_dumps(d[i][2])
       \o DumpItems(d, i + 1)

DumpList(l, i) ==
  IF i > Len(l) THEN <<>>
  ELSE (IF i > 1 THEN <<",", " ">> ELSE <<>>) \o json_dumps(l[i]) \o DumpList(l, i + 1)

json_dumps(v) ==
  CASE v.t = "int" -> IntToText(v.n)
    [] v.t = "str" -> <<"\"">> \o v.s \o <<"\"">>
    [] v.t = "bool" -> IF v.b THEN <<"t", "r", "u", "e">> ELSE <<"f", "a", "l", "s", "e">>
    [] v.t = "none" -> <<"n", "u", "l", "l">>
    [] v.t = "list" -> <<"[">> \o DumpList(v.l, 1) \o <<"]">>
    [] v.t = "dict" -> <<"{">> \o DumpItems(v.d, 1) \o <<"}">>

(***************************************************************************)
(* int(v): [ok |-> TRUE, n |-> integer] or [ok |-> FALSE, exc |-> name].   *)
(***************************************************************************)
RECURSIVE RStrip(_)
RStrip(s) == IF Len(s) > 0 /\ s[Len(s)] = " " THEN RStrip(SubSeq(s, 1, Len(s) - 1)) ELSE s

\* int(str): blanks stripped, optional sign, then decimal digits only
int_of_text(s0) ==
  LET s == RStrip(s0)
      b == SkipWs(s, 1)
      sg == b <= Len(s) /\ s[b] \in {"-", "+"}
      f == IF sg THEN b + 1 ELSE b
      e == ScanDigits(s, f)
  IN IF e = f \/ e # Len(s) + 1 THEN [ok |-> FALSE, exc |-> "ValueError"]
     ELSE [ok |-> TRUE,
           n |-> IF sg /\ s[b] = "-" THEN 0 - NatOf(s, f, e) ELSE NatOf(s, f, e)]

\* variant: a string is not parsed and counts as 0
py_int_sem_texto(v) ==
  CASE v.t = "int" -> [ok |-> TRUE, n |-> v.n]
    [] v.t = "bool" -> [ok |-> TRUE, n |-> IF v.b THEN 1 ELSE 0]
    [] v.t = "str" -> [ok |-> TRUE, n |-> 0]
    [] OTHER -> [ok |-> FALSE, exc |-> "TypeError"]

\* variant: a value that is no number counts as 0
py_int_zero_fill(v) ==
  CASE v.t = "int" -> [ok |-> TRUE, n |-> v.n]
    [] v.t = "bool" -> [ok |-> TRUE, n |-> IF v.b THEN 1 ELSE 0]
    [] v.t = "str" -> IF int_of_text(v.s).ok THEN int_of_text(v.s) ELSE [ok |-> TRUE, n |-> 0]
    [] OTHER -> [ok |-> TRUE, n |-> 0]

py_int(v) ==
  CASE v.t = "int" -> [ok |-> TRUE, n |-> v.n]
    [] v.t = "bool" -> [ok |-> TRUE, n |-> IF v.b THEN 1 ELSE 0]
    [] v.t = "str" -> int_of_text(v.s)
    [] OTHER -> [ok |-> FALSE, exc |-> "TypeError"]

(***************************************************************************)
(* State.                                                                  *)
(*   Metric extraction: the raw field value, the requested keys, the       *)
(*   mapping the field was serialised from (PyNone when it encodes none),  *)
(*   the outcome of the last call, the outcome before a re-encoding.       *)
(*   Tables: heap maps object identities to DataFrame values; a variable   *)
(*   holding a table holds its identity, so that a copy and an alias       *)
(*   differ.  df, service: the arguments of calcula_interacoes /           *)
(*   process_service; retorno: the outcome of the last table operation.    *)
(*   Comparator: tab_atual, tab_anterior are the caller's two snapshots;   *)
(*   df_atual, df_anterior, df_merged, df_occ_melt, df_int_melt are the    *)
(*   fields of the ComparadorMonitoramentoPoPeriodo object, 0 for None.    *)
(***************************************************************************)
VARIABLES dados, keys, mapa, resultado, anterior, faseM,
          heap, retorno,
          df, service, faseI,
          tab_atual, tab_anterior, df_atual, df_anterior,
          df_merged, df_occ_melt, df_int_melt, faseC,
          monitoramento, figura, faseD,
          coluna_dropdown, coluna_sort, linhas, ordenar_dropdown,
          dropdown, output_widget, faseW,
          annotate, log_scale, titulo_padrao, faseG

varsM == <<dados, keys, mapa, resultado, anterior, faseM>>

varsT == <<heap, retorno>>

varsI == <<df, service, faseI>>

varsC == <<tab_atual, tab_anterior, df_atual, df_anterior,
           df_merged, df_occ_melt, df_int_melt, faseC>>

varsD == <<monitoramento, figura, faseD>>

varsW == <<coluna_dropdown, coluna_sort, linhas, ordenar_dropdown,
           dropdown, output_widget, faseW>>

varsG == <<annotate, log_scale, titulo_padrao, faseG>>

vars == <<varsM, varsT, varsI, varsC, varsD, varsW, varsG>>

\* no call made yet
SemResultado == [t |-> "nenhum"]

(***************************************************************************)
(* extrai_metricas / extract_metrics.                                      *)
(***************************************************************************)
Range(f) == {f[i] : i \in DOMAIN f}

\* {k: 0 for k in keys}
RECURSIVE ZeroFillFrom(_, _, _)
ZeroFillFrom(ks, i, acc) ==
  IF i > Len(ks) THEN acc ELSE ZeroFillFrom(ks, i + 1, DictSet(acc, ks[i], PyInt(0)))

\* variant: the fallback mapping is left empty
ZeroFillVazio(ks) == Ret(PyDict(<<>>))

ZeroFill(ks) == Ret(PyDict(ZeroFillFrom(ks, 1, <<>>)))

\* variant: an absent key defaults to the sentinel -1 instead of 0
RECURSIVE DictCompSentinela(_, _, _, _)
DictCompSentinela(dados_dict, ks, i, acc) ==
  IF i > Len(ks) THEN Ret(PyDict(acc))
  ELSE IF dados_dict.t # "dict" THEN Raise("AttributeError")
  ELSE LET c == py_int(DictGet(dados_dict.d, ks[i], PyInt(0 - 1)))
       IN IF ~c.ok THEN Raise(c.exc)
          ELSE DictCompSentinela(dados_dict, ks, i + 1, DictSet(acc, ks[i], PyInt(c.n)))

\* {k: int(dados_dict.get(k, 0)) for k in keys}, from position i on; the
\* first failing item raises: .get on a non-dict, or int() of a non-number
RECURSIVE DictComp(_, _, _, _)
DictComp(dados_dict, ks, i, acc) ==
  IF i > Len(ks) THEN Ret(PyDict(acc))
  ELSE IF dados_dict.t # "dict" THEN Raise("AttributeError")
  ELSE LET c == py_int(DictGet(dados_dict.d, ks[i], PyInt(0)))
       IN IF ~c.ok THEN Raise(c.exc)
          ELSE DictComp(dados_dict, ks, i + 1, DictSet(acc, ks[i], PyInt(c.n)))

\* variant: a string is never decoded
extrai_metricas_sem_json(d, ks) ==
  IF d.t = "dict" THEN DictComp(d, ks, 1, <<>>) ELSE ZeroFill(ks)

\* r is what json.loads gave inside the try block
Decodificado(r, ks) == IF ~r.ok THEN ZeroFill(ks) ELSE DictComp(r.v, ks, 1, <<>>)

extrai_metricas(d, ks) ==
  IF d.t = "str" THEN Decodificado(json_loads(d.s), ks)
  ELSE IF d.t = "dict" THEN DictComp(d, ks, 1, <<>>)
  ELSE ZeroFill(ks)

(***************************************************************************)
(* Inputs of the extraction.                                               *)
(***************************************************************************)
KeyNames == {<<"a">>, <<"b">>, <<"c">>}

KeyLists == UNION {[1..n -> KeyNames] : n \in 0..MaxKeys}

\* values a metrics mapping may hold
Valores ==
  {PyInt(n) : n \in (0 - 1)..MaxValor}
    \cup {PyStr(<<"7">>), PyStr(<<"-", "3">>), PyStr(<<"a", "b", "c">>), PyNone, PyBool(TRUE)}

\* mappings over the keys a and b, each absent or holding a value
Mapas ==
  {<<>>}
    \cup {<<<<<<"a">>, v>>>> : v \in Valores}
    \cup {<<<<<<"b">>, v>>>> : v \in Valores}
    \cup {<<<<<<"a">>, v>>, <<<<"b">>, w>>>> : v \in Valores, w \in Valores}

\* raw values that are neither text nor mapping
NaoTexto == {PyNone, PyInt(42), PyBool(TRUE), PyList(<<PyInt(1), PyInt(2)>>)}

\* texts that are not JSON: empty, '{not valid json', '{"a": 1,}'
Malformados ==
  {PyStr(<<>>),
   PyStr(<<"{", "n", "o", "t", " ", "v", "a", "l", "i", "d", " ", "j", "s", "o", "n">>),
   PyStr(<<"{", "\"", "a", "\"", ":", " ", "1", ",", "}">>)}

\* JSON texts of something other than an object: '[1, 2]', '42', 'null', '"abc"'
JsonNaoObjeto ==
  {PyStr(<<"[", "1", ",", " ", "2", "]">>),
   PyStr(<<"4", "2">>),
   PyStr(<<"n", "u", "l", "l">>),
   PyStr(<<"\"", "a", "b", "c", "\"">>)}

\* raw values that encode no mapping
Outros == NaoTexto \cup Malformados \cup JsonNaoObjeto

\* the extraction component is not in use
ForaM ==
  /\ dados = PyNone
  /\ mapa = PyNone
  /\ resultado = SemResultado
  /\ anterior = SemResultado
  /\ faseM = "fora"

\* the per-service enrichment is not in use
ForaI ==
  /\ df = 0
  /\ service = ""
  /\ faseI = "fora"

\* the comparator is not in use
ForaC ==
  /\ tab_atual = 0
  /\ tab_anterior = 0
  /\ df_atual = 0
  /\ df_anterior = 0
  /\ df_merged = 0
  /\ df_occ_melt = 0
  /\ df_int_melt = 0
  /\ faseC = "fora"

\* the daily plots are not in use
ForaD ==
  /\ monitoramento = ""
  /\ figura = <<>>
  /\ faseD = "fora"

SemWidget == [t |-> "nenhum"]

\* no dropdown was asked for
ForaW ==
  /\ coluna_dropdown = <<>>
  /\ coluna_sort = PyNone
  /\ linhas = 0
  /\ ordenar_dropdown = FALSE
  /\ dropdown = SemWidget
  /\ output_widget = SemWidget
  /\ faseW = "fora"

\* no other chart of the processors is asked for, no class is being defined
ForaG ==
  /\ annotate = FALSE
  /\ log_scale = FALSE
  /\ titulo_padrao = SemResultado
  /\ faseG = "fora"

InitM ==
  /\ ForaG
  /\ ForaW
  /\ ForaI
  /\ ForaC
  /\ ForaD
  /\ heap = <<>>
  /\ retorno = SemResultado
  /\ keys \in KeyLists
  /\ \/ \E m \in Mapas :
          /\ mapa = PyDict(m)
          /\ dados \in {PyDict(m), PyStr(json_dumps(PyDict(m)))}
     \/ /\ mapa = PyNone
        /\ dados \in Outros
  /\ resultado = SemResultado
  /\ anterior = SemResultado
  /\ faseM = "entrada"

\* one call extrai_metricas(dados, keys)
Extrai ==
  /\ faseM = "entrada"
  /\ resultado' = extrai_metricas(dados, keys)
  /\ faseM' = "extraido"
  /\ UNCHANGED <<dados, keys, mapa, anterior, varsT, varsI, varsC, varsD, varsW, varsG>>

\* the returned mapping is serialised again and extracted with the same keys
Reextrai ==
  /\ faseM = "extraido"
  /\ resultado.t = "ret"
  /\ anterior' = resultado
  /\ dados' = PyStr(json_dumps(resultado.v))
  /\ resultado' = extrai_metricas(dados', keys)
  /\ faseM' = "reextraido"
  /\ UNCHANGED <<keys, mapa, varsT, varsI, varsC, varsD, varsW, varsG>>

NextM == Extrai \/ Reextrai

SpecM == InitM /\ [][NextM]_vars

(***************************************************************************)
(* Claims on the extraction.                                               *)
(***************************************************************************)
ValorDe(res, k) == DictGet(res.v.d, k, PyNone)

TodosZero(res, ks) ==
  /\ res.t = "ret"
  /\ res.v.t = "dict"
  /\ DictKeys(res.v.d) = Range(ks)
  /\ \A k \in Range(ks) : ValorDe(res, k) = PyInt(0)

\* C1: for every raw value and every list of keys, a call returns a mapping
\* whose key set is exactly the set of requested keys.
C1_ChavesExatas ==
  faseM = "extraido" =>
    /\ resultado.t = "ret"
    /\ resultado.v.t = "dict"
    /\ DictKeys(resultado.v.d) = Range(keys)

\* C2: extraction never raises, whatever the raw value decodes to and
\* whatever the mapping holds.
C2_NuncaLevanta == faseM # "entrada" => resultado.t # "raise"

\* C3: a text that is not JSON, or a raw value that is neither text nor
\* mapping, yields the mapping sending every requested key to 0.
C3_ZeroFill ==
  (faseM = "extraido" /\ dados \in (Malformados \cup NaoTexto)) =>
    TodosZero(resultado, keys)

C3_Witness ==
  /\ faseM = "extraido"
  /\ dados = PyStr(<<"{", "n", "o", "t", " ", "v", "a", "l", "i", "d", " ", "j", "s", "o", "n">>)
  /\ keys = <<<<"a">>, <<"b">>>>
  /\ resultado = Ret(PyDict(<<<<<<"a">>, PyInt(0)>>, <<<<"b">>, PyInt(0)>>>>))

\* the stored values the claim C4 speaks of: integers and numerals
Coercivel(v) == v.t \in {"int", "bool"} \/ v \in {PyStr(<<"7">>), PyStr(<<"-", "3">>)}

Esperado(v) ==
  CASE v.t = "int" -> v.n
    [] v.t = "bool" -> IF v.b THEN 1 ELSE 0
    [] v = PyStr(<<"7">>) -> 7
    [] v = PyStr(<<"-", "3">>) -> 0 - 3

\* C4: when raw is a mapping, native or as JSON text, of integers and
\* numerals, each requested key gets the integer of its stored value, an
\* absent key gets 0, and keys not requested do not appear.
C4_PassThrough ==
  (/\ faseM = "extraido"
   /\ mapa.t = "dict"
   /\ \A k \in Range(keys) :
        DictHas(mapa.d, k) => Coercivel(DictGet(mapa.d, k, PyNone))) =>
    /\ resultado.t = "ret"
    /\ DictKeys(resultado.v.d) = Range(keys)
    /\ \A k \in Range(keys) :
         ValorDe(resultado, k) =
           PyInt(IF DictHas(mapa.d, k) THEN Esperado(DictGet(mapa.d, k, PyNone)) ELSE 0)

C4_Witness ==
  /\ faseM = "extraido"
  /\ dados = PyDict(<<<<<<"a">>, PyInt(3)>>, <<<<"b">>, PyStr(<<"7">>)>>>>)
  /\ keys = <<<<"a">>, <<"b">>, <<"c">>>>
  /\ resultado =
       Ret(PyDict(<<<<<<"a">>, PyInt(3)>>, <<<<"b">>, PyInt(7)>>, <<<<"c">>, PyInt(0)>>>>))

\* C5: re-encoding a returned mapping as JSON text and extracting again
\* with the same keys returns the same mapping.
C5_Idempotente ==
  faseM = "reextraido" =>
    /\ resultado.t = "ret"
    /\ DictEq(resultado.v.d, anterior.v.d)

C5_Witness ==
  /\ faseM = "reextraido"
  /\ keys = <<<<"a">>, <<"b">>, <<"c">>>>
  /\ anterior = Ret(PyDict(<<<<<<"a">>, PyInt(3)>>, <<<<"b">>, PyInt(7)>>, <<<<"c">>, PyInt(0)>>>>))
  /\ dados = PyStr(<<"{", "\"", "a", "\"", ":", " ", "3", ",", " ",
                     "\"", "b", "\"", ":", " ", "7", ",", " ",
                     "\"", "c", "\"", ":", " ", "0", "}">>)
  /\ resultado = anterior

Negativo(v) ==
  \/ v.t = "int" /\ v.n < 0
  \/ v.t = "str" /\ \E i \in DOMAIN v.s : v.s[i] = "-"

ColServico == <<"servico.keyword">>

ColManif == <<"manifestacoes_detalhadas.keyword">>

ColTemp == <<"temp_metrics">>

ColInter == <<"interacoes_calculadas">>

Min(S) == CHOOSE x \in S : \A y \in S : x <= y

\* identity of the next object created
NewId(h) == Min({n \in 1..(Cardinality(DOMAIN h) + 1) : n \notin DOMAIN h})

\* a new object holding table t
Alloc(h, t) ==
  LET n == NewId(h)
  IN [heap |-> [i \in DOMAIN h \cup {n} |-> IF i = n THEN t ELSE h[i]], ref |-> n]

\* objects no variable refers to any more are dropped
Collect(h, roots) == [i \in DOMAIN h \cap roots |-> h[i]]

RECURSIVE SelectRows(_, _, _, _)
SelectRows(rows, col, val, i) ==
  IF i > Len(rows) THEN <<>>
  ELSE (IF rows[i].c[col] = val THEN <<rows[i]>> ELSE <<>>)
       \o SelectRows(rows, col, val, i + 1)

\* df[df[col] == val] : always a new object
BoolIndex(h, r, col, val) ==
  Alloc(h, [cols |-> h[r].cols, rows |-> SelectRows(h[r].rows, col, val, 1)])

\* df.copy()
DataFrameCopy(h, r) == Alloc(h, h[r])

\* the table with column name set to vals (one value per row)
TSetCol(t, name, vals) ==
  [cols |-> IF name \in Range(t.cols) THEN t.cols ELSE Append(t.cols, name),
   rows |-> [i \in DOMAIN t.rows |->
               [idx |-> t.rows[i].idx,
                c |-> [x \in DOMAIN t.rows[i].c \cup {name} |->
                         IF x = name THEN vals[i] ELSE t.rows[i].c[x]]]]]

\* df[name] = vals : mutates the object r
SetColumn(h, r, name, vals) == [h EXCEPT ![r] = TSetCol(h[r], name, vals)]

RECURSIVE WithoutName(_, _, _)
WithoutName(cols, name, i) ==
  IF i > Len(cols) THEN <<>>
  ELSE (IF cols[i] = name THEN <<>> ELSE <<cols[i]>>) \o WithoutName(cols, name, i + 1)

\* variant: nothing is dropped
DropColumnNenhuma(h, r, name) == h

\* df.drop(columns=name, inplace=True) : mutates the object r
DropColumn(h, r, name) ==
  [h EXCEPT ![r] =
     [cols |-> WithoutName(h[r].cols, name, 1),
      rows |-> [i \in DOMAIN h[r].rows |->
                  [idx |-> h[r].rows[i].idx,
                   c |-> [x \in DOMAIN h[r].rows[i].c \ {name} |-> h[r].rows[i].c[x]]]]]]

\* variant: only the first listed column is summed
SumColsPrimeira(row, ks, i) == IF Len(ks) = 0 THEN 0 ELSE row.c[ks[1]]

\* df[ks].sum(axis=1) for one row: every listed column counts, a column
\* listed twice counts twice
RECURSIVE SumCols(_, _, _)
SumCols(row, ks, i) ==
  IF i > Len(ks) THEN 0 ELSE row.c[ks[i]] + SumCols(row, ks, i + 1)

\* the exception of the first row whose call raised
PrimeiroErro(outs) == outs[Min({i \in DOMAIN outs : outs[i].t = "raise"})]

(***************************************************************************)
(* ProcessamentoMetricas.calcula_interacoes.                               *)
(***************************************************************************)
\* for k in keys: df_service[k] = df_service['temp_metrics'].apply(... .get(k, 0))
RECURSIVE SetKeyCols(_, _, _, _)
SetKeyCols(h, r, ks, i) ==
  IF i > Len(ks) THEN h
  ELSE SetKeyCols(
         SetColumn(h, r, ks[i],
                   [j \in DOMAIN h[r].rows |->
                      DictGet(h[r].rows[j].c[ColTemp].d, ks[i], PyInt(0)).n]),
         r, ks, i + 1)

\* the .copy() of the selection a
CopiaDe(a) == DataFrameCopy(a.heap, a.ref)

\* df_service['interacoes_calculadas'] = df_service[keys].sum(axis=1), then
\* temp_metrics is dropped and df_service returned
InteracoesSoma(h, r, ks) ==
  [heap |-> DropColumn(SetColumn(h, r, ColInter,
                                 [i \in DOMAIN h[r].rows |-> SumCols(h[r].rows[i], ks, 1)]),
                       r, ColTemp),
   out |-> Ret(r)]

\* outs are the results of extrai_metricas row by row: the first exception
\* escapes, otherwise temp_metrics and the key columns are set
InteracoesMetricas(h, r, ks, outs) ==
  IF \E i \in DOMAIN outs : outs[i].t = "raise"
  THEN [heap |-> h, out |-> PrimeiroErro(outs)]
  ELSE InteracoesSoma(
         SetKeyCols(SetColumn(h, r, ColTemp, [i \in DOMAIN outs |-> outs[i].v]), r, ks, 1),
         r, ks)

\* df_service['temp_metrics'] = df_service[...].apply(extrai_metricas)
InteracoesServico(b, ks) ==
  InteracoesMetricas(b.heap, b.ref, ks,
                     [i \in DOMAIN b.heap[b.ref].rows |->
                        extrai_metricas(b.heap[b.ref].rows[i].c[ColManif], ks)])

\* [heap |-> heap after the call, out |-> Ret(identity of df_service) or Raise]
calcula_interacoes(h, d, sv, ks) ==
  InteracoesServico(CopiaDe(BoolIndex(h, d, ColServico, sv)), ks)

(***************************************************************************)
(* MetricsProcessor.extract_metrics and process_service.                   *)
(***************************************************************************)
extract_metrics(d, ks) ==
  IF d.t = "str" THEN Decodificado(json_loads(d.s), ks)
  ELSE IF d.t = "dict" THEN DictComp(d, ks, 1, <<>>)
  ELSE ZeroFill(ks)

\* for k in keys: df_service[k] = column.apply(lambda x: extract_metrics(x, keys)[k])
\* [heap |-> ..., err |-> SemResultado or the exception raised]
RECURSIVE ApplyKeyCols(_, _, _, _)
RECURSIVE ApplyKey(_, _, _, _, _)
ApplyKeyCols(h, r, ks, i) ==
  IF i > Len(ks) THEN [heap |-> h, err |-> SemResultado]
  ELSE ApplyKey(h, r, ks, i,
                [j \in DOMAIN h[r].rows |-> extract_metrics(h[r].rows[j].c[ColManif], ks)])

\* the column of key ks[i] from the row results outs, then the next key
ApplyKey(h, r, ks, i, outs) ==
  IF \E j \in DOMAIN outs : outs[j].t = "raise"
  THEN [heap |-> h, err |-> PrimeiroErro(outs)]
  ELSE ApplyKeyCols(
         SetColumn(h, r, ks[i],
                   [j \in DOMAIN outs |-> DictGet(outs[j].v.d, ks[i], PyNone).n]),
         r, ks, i + 1)

\* df_service['interacoes_calculadas'] = df_service[keys].sum(axis=1)
ServicoSoma(k, r, ks) ==
  IF k.err.t = "raise" THEN [heap |-> k.heap, out |-> k.err]
  ELSE [heap |-> SetColumn(k.heap, r, ColInter,
                           [i \in DOMAIN k.heap[r].rows |->
                              SumCols(k.heap[r].rows[i], ks, 1)]),
        out |-> Ret(r)]

ServicoMetricas(b, ks) == ServicoSoma(ApplyKeyCols(b.heap, b.ref, ks, 1), b.ref, ks)

process_service(h, d, sv, ks) ==
  ServicoMetricas(CopiaDe(BoolIndex(h, d, ColServico, sv)), ks)

(***************************************************************************)
(* Inputs of the per-service enrichment.                                   *)
(***************************************************************************)
Servicos == {"twitter", "facebook"}

\* the service column of the caller's table, row by row
FormasI ==
  {<<>>, <<"twitter">>, <<"facebook">>, <<"twitter", "facebook">>,
   <<"facebook", "twitter">>, <<"twitter", "twitter">>}

\* contents of the manifestacoes_detalhadas field
Manifestacoes ==
  {PyDict(<<<<<<"a">>, PyInt(3)>>, <<<<"b">>, PyStr(<<"7">>)>>>>),
   PyStr(json_dumps(PyDict(<<<<<<"a">>, PyInt(1)>>, <<<<"b">>, PyInt(MaxValor)>>>>))),
   PyStr(<<"{", "n", "o", "t", " ", "v", "a", "l", "i", "d", " ", "j", "s", "o", "n">>),
   PyNone,
   PyStr(<<"[", "1", ",", " ", "2", "]">>),
   PyDict(<<<<<<"a">>, PyStr(<<"a", "b", "c">>)>>>>),
   PyStr(json_dumps(PyDict(<<<<<<"b">>, PyNone>>>>)))}

\* key lists over the metrics a and b
KeyListsI == UNION {[1..n -> {<<"a">>, <<"b">>}] : n \in 0..MaxKeys}

TabelaI(forma, manif) ==
  [cols |-> <<ColServico, ColManif>>,
   rows |-> [i \in DOMAIN forma |->
               [idx |-> i - 1,
                c |-> [x \in {ColServico, ColManif} |->
                         IF x = ColServico THEN forma[i] ELSE manif[i]]]]]

InitI ==
  /\ ForaG
  /\ ForaW
  /\ ForaM
  /\ ForaC
  /\ ForaD
  /\ keys \in KeyListsI
  /\ service \in Servicos
  /\ df = 1
  /\ \E forma \in FormasI : \E manif \in [DOMAIN forma -> Manifestacoes] :
       heap = <<TabelaI(forma, manif)>>
  /\ retorno = SemResultado
  /\ faseI = "pronto"

Roots(out) == IF out.t = "ret" THEN {out.v} ELSE {}

\* the call returns r: its local tables are dropped
FicaI(r, nome) ==
  /\ retorno' = r.out
  /\ heap' = Collect(r.heap, {df} \cup Roots(r.out))
  /\ faseI' = nome
  /\ UNCHANGED <<df, service, varsM, varsC, varsD, varsW, varsG>>

CalculaInteracoes ==
  /\ faseI = "pronto"
  /\ FicaI(calcula_interacoes(heap, df, service, keys), "calcula_interacoes")

ProcessService ==
  /\ faseI = "pronto"
  /\ FicaI(process_service(heap, df, service, keys), "process_service")

NextI == CalculaInteracoes \/ ProcessService

SpecI == InitI /\ [][NextI]_vars

(***************************************************************************)
(* Claims on the per-service enrichment.                                   *)
(***************************************************************************)
\* sum(mapping.values())
RECURSIVE SumValues(_, _)
SumValues(d, i) == IF i > Len(d) THEN 0 ELSE d[i][2].n + SumValues(d, i + 1)

\* sum(mapping[k] for k in ks)
RECURSIVE SumByKey(_, _, _)
SumByKey(d, ks, i) ==
  IF i > Len(ks) THEN 0 ELSE DictGet(d, ks[i], PyNone).n + SumByKey(d, ks, i + 1)

Distinct(ks) == \A i, j \in DOMAIN ks : ks[i] = ks[j] => i = j

\* the table operation of the last step returned a table
Devolveu == faseI \in {"calcula_interacoes", "process_service"} /\ retorno.t = "ret"

\* the mapping extract gives for the record's manifestacoes field
Extraido(row) ==
  IF faseI = "process_service"
  THEN extract_metrics(row.c[ColManif], keys).v.d
  ELSE extrai_metricas(row.c[ColManif], keys).v.d

\* C7 as stated: for every kept record, interacoes_calculadas is the sum of
\* the values of the mapping extract returns for the record, for every list
\* of keys.
C7_SomaDosValores ==
  Devolveu =>
    \A i \in DOMAIN heap[retorno.v].rows :
      heap[retorno.v].rows[i].c[ColInter] = SumValues(Extraido(heap[retorno.v].rows[i]), 1)

\* C7 amended: for every kept record, interacoes_calculadas is the sum over
\* the positions of the key list of the extracted value of that key, which
\* is the sum of the mapping's values when no key is listed twice.
C7_SomaPorPosicao ==
  Devolveu =>
    \A i \in DOMAIN heap[retorno.v].rows :
      LET row == heap[retorno.v].rows[i]
      IN /\ row.c[ColInter] = SumByKey(Extraido(row), keys, 1)
         /\ Distinct(keys) => row.c[ColInter] = SumValues(Extraido(row), 1)

C7_Witness ==
  /\ faseI = "calcula_interacoes"
  /\ retorno.t = "ret"
  /\ keys = <<<<"a">>, <<"b">>>>
  /\ \E i \in DOMAIN heap[retorno.v].rows :
       /\ heap[retorno.v].rows[i].c[ColManif] =
            PyDict(<<<<<<"a">>, PyInt(3)>>, <<<<"b">>, PyStr(<<"7">>)>>>>)
       /\ heap[retorno.v].rows[i].c[ColInter] = 10

(***************************************************************************)
(* ComparadorMonitoramentoPoPeriodo.                                       *)
(* Counts are integers; a float is an exact fraction num/den in lowest     *)
(* terms (den > 0), or one of the IEEE values inf, -inf, nan.              *)
(***************************************************************************)
ColTopico == <<"monitoramento_nome.keyword">>

ColOcc == <<"total_ocorrencias">>

ColInt == <<"total_interacoes">>

SufAtual == <<"_atual">>

SufAnterior == <<"_anterior">>

ColDiffOcc == <<"diff_ocorrencias">>

ColDiffInt == <<"diff_interacoes">>

ColPercOcc == <<"perc_ocorrencias">>

ColPercInt == <<"perc_interacoes">>

Abs(n) == IF n < 0 THEN 0 - n ELSE n

RECURSIVE GCD(_, _)
GCD(a, b) == IF b = 0 THEN a ELSE GCD(b, a % b)

\* the float n/d, d > 0
Frac(n, d) ==
  LET g == GCD(Abs(n), d) IN [t |-> "float", num |-> n \div g, den |-> d \div g]

FInf == [t |-> "inf"]

FNegInf == [t |-> "-inf"]

FNaN == [t |-> "nan"]

\* variant: a zero divisor is special-cased to the quotient 0
TrueDivZeroSeguro(a, b) ==
  IF b = 0 THEN [t |-> "float", num |-> 0, den |-> 1]
  ELSE IF b > 0 THEN Frac(a, b)
  ELSE Frac(0 - a, 0 - b)

\* a / b on integer columns: float64, division by zero gives inf, -inf or nan
TrueDiv(a, b) ==
  IF b = 0 THEN (IF a > 0 THEN FInf ELSE IF a < 0 THEN FNegInf ELSE FNaN)
  ELSE IF b > 0 THEN Frac(a, b)
  ELSE Frac(0 - a, 0 - b)

\* x * k for a float x and an integer k > 0
FMul(x, k) == IF x.t = "float" THEN Frac(x.num * k, x.den) ELSE x

\* df.rename(columns=m) : a new object; names absent from the table are ignored
\* m is a set of <<old, new>> pairs
NewName(m, c) == IF \E q \in m : q[1] = c THEN (CHOOSE q \in m : q[1] = c)[2] ELSE c

TRename(t, m) ==
  [cols |-> [i \in DOMAIN t.cols |-> NewName(m, t.cols[i])],
   rows |-> [i \in DOMAIN t.rows |->
               [idx |-> t.rows[i].idx,
                c |-> [x \in {NewName(m, c) : c \in DOMAIN t.rows[i].c} |->
                         t.rows[i].c[CHOOSE c \in DOMAIN t.rows[i].c : NewName(m, c) = x]]]]]

\* variant: rename(columns=m, inplace=True) on the caller's object
rename_inplace(h, r, m) == [heap |-> [h EXCEPT ![r] = TRename(h[r], m)], ref |-> r]

rename(h, r, m) == Alloc(h, TRename(h[r], m))

\* variant: rows are paired by position, whatever their keys
RECURSIVE JoinPairsPosicional(_, _, _, _, _)
JoinPairsPosicional(L, R, on, i, j) ==
  IF i > Len(L) \/ i > Len(R) THEN <<>>
  ELSE <<<<i, i>>>> \o JoinPairsPosicional(L, R, on, i + 1, j)

\* the pairs <<i, j>> of rows with equal keys, in the order of the left rows
RECURSIVE JoinPairs(_, _, _, _, _)
JoinPairs(L, R, on, i, j) ==
  IF i > Len(L) THEN <<>>
  ELSE IF j > Len(R) THEN JoinPairs(L, R, on, i + 1, 1)
  ELSE (IF L[i].c[on] = R[j].c[on] THEN <<<<i, j>>>> ELSE <<>>)
       \o JoinPairs(L, R, on, i, j + 1)

\* pd.merge(left, right, on=on, how="inner", suffixes=(sl, sr)):
\* [heap |-> ..., out |-> Ret(identity of the new table) or Raise("KeyError")]
merge(h, l, r, on, sl, sr) ==
  IF on \notin Range(h[l].cols) \/ on \notin Range(h[r].cols)
  THEN [heap |-> h, out |-> Raise("KeyError")]
  ELSE
    LET L == h[l]
        R == h[r]
        both == (Range(L.cols) \cap Range(R.cols)) \ {on}
        nl(c) == IF c \in both THEN c \o sl ELSE c
        nr(c) == IF c \in both THEN c \o sr ELSE c
        rcols == WithoutName(R.cols, on, 1)
        cols == [i \in DOMAIN L.cols |-> nl(L.cols[i])]
                  \o [i \in DOMAIN rcols |-> nr(rcols[i])]
        pairs == JoinPairs(L.rows, R.rows, on, 1, 1)
        cell(q, x) ==
          IF \E c \in Range(L.cols) : nl(c) = x
          THEN L.rows[q[1]].c[CHOOSE c \in Range(L.cols) : nl(c) = x]
          ELSE R.rows[q[2]].c[CHOOSE c \in Range(rcols) : nr(c) = x]
        a == Alloc(h, [cols |-> cols,
                       rows |-> [k \in DOMAIN pairs |->
                                   [idx |-> k - 1,
                                    c |-> [x \in Range(cols) |-> cell(pairs[k], x)]]]])
    IN [heap |-> a.heap, out |-> Ret(a.ref)]

\* the column of per-row values f(row) of object r
ColOf(h, r, name) == [i \in DOMAIN h[r].rows |-> h[r].rows[i].c[name]]

\* __init__: the two renamed tables; [heap, atual, anterior]
Comparador_init(h, ta, tb) ==
  LET a == rename(h, ta, {<<ColOcc, ColOcc \o SufAtual>>, <<ColInt, ColInt \o SufAtual>>})
      b == rename(a.heap, tb,
                  {<<ColOcc, ColOcc \o SufAnterior>>, <<ColInt, ColInt \o SufAnterior>>})
  IN [heap |-> b.heap, atual |-> a.ref, anterior |-> b.ref]

\* variant: the operands are swapped
SubColsTrocado(h, r, a, b) == [i \in DOMAIN h[r].rows |-> h[r].rows[i].c[b] - h[r].rows[i].c[a]]

\* a - b, row by row
SubCols(h, r, a, b) == [i \in DOMAIN h[r].rows |-> h[r].rows[i].c[a] - h[r].rows[i].c[b]]

\* (a / b) * 100, row by row
PercCols(h, r, a, b) ==
  [i \in DOMAIN h[r].rows |-> FMul(TrueDiv(h[r].rows[i].c[a], h[r].rows[i].c[b]), 100)]

\* df["diff_ocorrencias"] = df[..._atual] - df[..._anterior]
ComDiffOcc(h, d) ==
  SetColumn(h, d, ColDiffOcc, SubCols(h, d, ColOcc \o SufAtual, ColOcc \o SufAnterior))

ComDiffInt(h, d) ==
  SetColumn(h, d, ColDiffInt, SubCols(h, d, ColInt \o SufAtual, ColInt \o SufAnterior))

\* df["perc_ocorrencias"] = (df["diff_ocorrencias"] / df[..._anterior]) * 100
ComPercOcc(h, d) ==
  SetColumn(h, d, ColPercOcc, PercCols(h, d, ColDiffOcc, ColOcc \o SufAnterior))

ComPercInt(h, d) ==
  SetColumn(h, d, ColPercInt, PercCols(h, d, ColDiffInt, ColInt \o SufAnterior))

\* variant: the merged table is stored before its columns are computed
DiferencasDeParcial(m, merged) ==
  IF m.out.t = "raise" THEN [heap |-> m.heap, out |-> m.out, merged |-> merged]
  ELSE IF ~({ColOcc \o SufAtual, ColOcc \o SufAnterior,
             ColInt \o SufAtual, ColInt \o SufAnterior}
              \subseteq Range(m.heap[m.out.v].cols))
  THEN [heap |-> m.heap, out |-> Raise("KeyError"), merged |-> m.out.v]
  ELSE [heap |-> ComPercInt(ComPercOcc(ComDiffInt(ComDiffOcc(m.heap, m.out.v),
                                                  m.out.v),
                                       m.out.v),
                            m.out.v),
        out |-> Ret(0),
        merged |-> m.out.v]

\* the four computed columns on the merged table m, then self.df_merged = df
DiferencasDe(m, merged) ==
  IF m.out.t = "raise" THEN [heap |-> m.heap, out |-> m.out, merged |-> merged]
  ELSE IF ~({ColOcc \o SufAtual, ColOcc \o SufAnterior,
             ColInt \o SufAtual, ColInt \o SufAnterior}
              \subseteq Range(m.heap[m.out.v].cols))
  THEN [heap |-> m.heap, out |-> Raise("KeyError"), merged |-> merged]
  ELSE [heap |-> ComPercInt(ComPercOcc(ComDiffInt(ComDiffOcc(m.heap, m.out.v),
                                                  m.out.v),
                                       m.out.v),
                            m.out.v),
        out |-> Ret(0),
        merged |-> m.out.v]

\* calcular_diferencas: [heap, out |-> Ret(0) or Raise, merged |-> new df_merged]
calcular_diferencas(h, da, db, merged) ==
  DiferencasDe(merge(h, da, db, ColTopico, SufAtual, SufAnterior), merged)

ColSemana == <<"Semana">>

ColOcorrencias == <<"Ocorrencias">>

ColInteracoes == <<"Interacoes">>

\* df[[names]] : a new object with the listed columns, KeyError if one is absent
SelectCols(h, r, names) ==
  IF ~(Range(names) \subseteq Range(h[r].cols))
  THEN [heap |-> h, out |-> Raise("KeyError")]
  ELSE LET a == Alloc(h, [cols |-> names,
                          rows |-> [i \in DOMAIN h[r].rows |->
                                      [idx |-> h[r].rows[i].idx,
                                       c |-> [x \in Range(names) |-> h[r].rows[i].c[x]]]]])
       IN [heap |-> a.heap, out |-> Ret(a.ref)]

RECURSIVE NotIn(_, _, _)
NotIn(cols, S, i) ==
  IF i > Len(cols) THEN <<>>
  ELSE (IF cols[i] \in S THEN <<>> ELSE <<cols[i]>>) \o NotIn(cols, S, i + 1)

\* variant: only the first value column is melted
TMeltUmaColuna(t, ids, vn, valn) ==
  LET v == NotIn(t.cols, Range(ids), 1)[1]
  IN [cols |-> ids \o <<vn, valn>>,
      rows |-> [k \in 1..Len(t.rows) |->
                  [idx |-> k - 1,
                   c |-> [x \in Range(ids) \cup {vn, valn} |->
                            IF x = vn THEN v
                            ELSE IF x = valn THEN t.rows[k].c[v]
                            ELSE t.rows[k].c[x]]]]]

\* t.melt(id_vars=ids, var_name=vn, value_name=valn): for each value column
\* in turn, one row per row of t
TMelt(t, ids, vn, valn) ==
  LET vvars == NotIn(t.cols, Range(ids), 1)
      n == Len(t.rows)
  IN [cols |-> ids \o <<vn, valn>>,
      rows |-> [k \in 1..(n * Len(vvars)) |->
                  LET v == vvars[((k - 1) \div n) + 1]
                      row == t.rows[((k - 1) % n) + 1]
                  IN [idx |-> k - 1,
                      c |-> [x \in Range(ids) \cup {vn, valn} |->
                               IF x = vn THEN v
                               ELSE IF x = valn THEN row.c[v]
                               ELSE row.c[x]]]]]

\* the column name of object r with the values replaced as in m
Replaced(h, r, name, m) ==
  [i \in DOMAIN h[r].rows |-> NewName(m, h[r].rows[i].c[name])]

\* variant: the two labels are exchanged
LongoRotuladoTrocado(m, cur, prev) ==
  [heap |-> SetColumn(m.heap, m.ref, ColSemana,
                      Replaced(m.heap, m.ref, ColSemana,
                               {<<cur, <<"Anterior">>>>, <<prev, <<"Atual">>>>})),
   out |-> Ret(m.ref)]

\* df_melt["Semana"] = df_melt["Semana"].replace({cur: "Atual", prev: "Anterior"})
LongoRotulado(m, cur, prev) ==
  [heap |-> SetColumn(m.heap, m.ref, ColSemana,
                      Replaced(m.heap, m.ref, ColSemana,
                               {<<cur, <<"Atual">>>>, <<prev, <<"Anterior">>>>})),
   out |-> Ret(m.ref)]

\* c.melt(id_vars=[topic, diff, perc], var_name="Semana", value_name=valn)
LongoMelt(c, cur, prev, diff, perc, valn) ==
  LongoRotulado(Alloc(c.heap, TMelt(c.heap[c.ref], <<ColTopico, diff, perc>>,
                                    ColSemana, valn)),
                cur, prev)

\* s is the selection self.df_merged[[...]]; .copy() when it did not raise
LongoCopia(s, cur, prev, diff, perc, valn) ==
  IF s.out.t = "raise" THEN s
  ELSE LongoMelt(DataFrameCopy(s.heap, s.out.v), cur, prev, diff, perc, valn)

\* one long table of preparar_longos: select, copy, melt, relabel
\* [heap, out |-> Ret(identity of the long table) or Raise]
Longo(h, merged, cur, prev, diff, perc, valn) ==
  LongoCopia(SelectCols(h, merged, <<ColTopico, cur, prev, diff, perc>>),
             cur, prev, diff, perc, valn)

\* an exception leaves the long-table fields as they were
LongosFalha(h, out, c, occ, int) ==
  [heap |-> h, out |-> out, merged |-> c.merged, occ |-> occ, int |-> int]

\* variant: both fields are given the occurrences table
LongosAtribuiMesma(c, o, i, occ, int) ==
  IF i.out.t = "raise" THEN LongosFalha(i.heap, i.out, c, occ, int)
  ELSE [heap |-> i.heap, out |-> Ret(0), merged |-> c.merged,
        occ |-> o.out.v, int |-> o.out.v]

\* self.df_occ_melt = df_occ_melt; self.df_int_melt = df_int_melt
LongosAtribui(c, o, i, occ, int) ==
  IF i.out.t = "raise" THEN LongosFalha(i.heap, i.out, c, occ, int)
  ELSE [heap |-> i.heap, out |-> Ret(0), merged |-> c.merged,
        occ |-> o.out.v, int |-> i.out.v]

\* the interactions long table, after the occurrences one (o)
LongosInteracoes(c, o, occ, int) ==
  IF o.out.t = "raise" THEN LongosFalha(o.heap, o.out, c, occ, int)
  ELSE LongosAtribui(c, o,
                     Longo(o.heap, c.merged, ColInt \o SufAtual, ColInt \o SufAnterior,
                           ColDiffInt, ColPercInt, ColInteracoes),
                     occ, int)

\* the occurrences long table, once df_merged is there (c)
LongosOcorrencias(c, occ, int) ==
  IF c.out.t = "raise" THEN LongosFalha(c.heap, c.out, c, occ, int)
  ELSE LongosInteracoes(c,
                        Longo(c.heap, c.merged, ColOcc \o SufAtual, ColOcc \o SufAnterior,
                              ColDiffOcc, ColPercOcc, ColOcorrencias),
                        occ, int)

\* variant: the comparison table computed on the way is not kept
preparar_longos_sem_guardar(h, da, db, merged, occ, int) ==
  [LongosOcorrencias(IF merged = 0 THEN calcular_diferencas(h, da, db, merged)
                     ELSE [heap |-> h, out |-> Ret(0), merged |-> merged],
                     occ, int) EXCEPT !.merged = merged]

\* preparar_longos: [heap, out, merged, occ, int] with the new field values
preparar_longos(h, da, db, merged, occ, int) ==
  LongosOcorrencias(IF merged = 0 THEN calcular_diferencas(h, da, db, merged)
                    ELSE [heap |-> h, out |-> Ret(0), merged |-> merged],
                    occ, int)

(***************************************************************************)
(* plotar_ocorrencias and plotar_interacoes.  The figure saved is kept as  *)
(* its bars, one per row of the long table, each with its value label.     *)
(***************************************************************************)
ArquivoOcorrencias == "grafico_comparativo_periodo_atual_anterior_ocorrencias.png"

ArquivoInteracoes == "grafico_comparativo_periodo_atual_anterior_interacoes.png"

\* return caminho: the path of the file written
RetCaminho(nome) == [t |-> "ret", caminho |-> nome]

\* cor = "green" if diff_perc >= 0 else "red": a comparison with nan is false
CorDoPercentual(p) ==
  IF p.t = "float" THEN (IF p.num >= 0 THEN "green" ELSE "red")
  ELSE IF p.t = "inf" THEN "green" ELSE "red"

\* one bar with its label: the Atual bar shows value and percentage in
\* green or red, the Anterior bar the value in black
Barra(row, valn, perc) ==
  [y |-> row.c[ColTopico],
   x |-> row.c[valn],
   hue |-> row.c[ColSemana],
   texto |-> IF row.c[ColSemana] = <<"Atual">>
             THEN <<row.c[valn], row.c[perc]>> ELSE <<row.c[valn]>>,
   cor |-> IF row.c[ColSemana] = <<"Atual">> THEN CorDoPercentual(row.c[perc])
           ELSE "black"]

Barras(l, valn, perc) == [j \in DOMAIN l.rows |-> Barra(l.rows[j], valn, perc)]

\* the fields as they are, when the prerequisite is already there
SemPreparo(h, merged, occ, int) ==
  [heap |-> h, out |-> Ret(0), merged |-> merged, occ |-> occ, int |-> int]

\* c is the comparator after the guard of the plot; l selects its long
\* table; fig is the figure shown before the call
\* [heap, out, merged, occ, int, fig]
PlotaLongo(c, l, valn, perc, nome, fig) ==
  IF c.out.t = "raise"
  THEN [heap |-> c.heap, out |-> c.out, merged |-> c.merged,
        occ |-> c.occ, int |-> c.int, fig |-> fig]
  ELSE [heap |-> c.heap, out |-> RetCaminho(nome), merged |-> c.merged,
        occ |-> c.occ, int |-> c.int,
        fig |-> [barras |-> Barras(c.heap[l], valn, perc), arquivo |-> nome]]

PlotaOcorrencias(c, fig) ==
  PlotaLongo(c, c.occ, ColOcorrencias, ColPercOcc, ArquivoOcorrencias, fig)

PlotaInteracoes(c, fig) ==
  PlotaLongo(c, c.int, ColInteracoes, ColPercInt, ArquivoInteracoes, fig)

\* variant: the plot does not prepare the long tables itself
plotar_ocorrencias_sem_preparo(h, da, db, merged, occ, int, fig) ==
  IF occ = 0
  THEN [heap |-> h, out |-> Raise("ValueError"), merged |-> merged,
        occ |-> occ, int |-> int, fig |-> fig]
  ELSE PlotaOcorrencias(SemPreparo(h, merged, occ, int), fig)

\* variant: the plot prepares the long tables anew on every call
plotar_ocorrencias_sempre_prepara(h, da, db, merged, occ, int, fig) ==
  PlotaOcorrencias(preparar_longos(h, da, db, merged, occ, int), fig)

plotar_ocorrencias(h, da, db, merged, occ, int, fig) ==
  PlotaOcorrencias(IF occ = 0 THEN preparar_longos(h, da, db, merged, occ, int)
                   ELSE SemPreparo(h, merged, occ, int),
                   fig)

plotar_interacoes(h, da, db, merged, occ, int, fig) ==
  PlotaInteracoes(IF int = 0 THEN preparar_longos(h, da, db, merged, occ, int)
                  ELSE SemPreparo(h, merged, occ, int),
                  fig)

(***************************************************************************)
(* Inputs of the comparator.                                               *)
(***************************************************************************)
\* <<occurrences, interactions>> of one topic in one period
Grade == {<<o, i>> : o \in 0..MaxCont, i \in {0, MaxCont + 2}}

\* with the worked example of the specification: 120 and 500 against 100 and 400
ContagensAtual == Grade \cup {<<120, 500>>}

ContagensAnterior == Grade \cup {<<100, 400>>}

\* the topic column of the current snapshot, row by row
FormasAtual ==
  {<<>>, <<"T1">>, <<"T2">>, <<"T1", "T2">>, <<"T2", "T1">>, <<"T1", "T1">>}

\* the topic column of the previous snapshot, row by row
FormasAnterior == {<<>>, <<"T1">>, <<"T2">>, <<"T1", "T2">>}

Snapshot(forma, cont) ==
  [cols |-> <<ColTopico, ColOcc, ColInt>>,
   rows |-> [i \in DOMAIN forma |->
               [idx |-> i - 1,
                c |-> [x \in {ColTopico, ColOcc, ColInt} |->
                         IF x = ColTopico THEN forma[i]
                         ELSE IF x = ColOcc THEN cont[i][1] ELSE cont[i][2]]]]]

Snapshots(formas, contagens) ==
  UNION {{Snapshot(f, cont) : cont \in [DOMAIN f -> contagens]} : f \in formas}

\* snapshots violating the schema: no topic column, no interactions column
SemTopico ==
  [cols |-> <<ColOcc, ColInt>>,
   rows |-> <<[idx |-> 0, c |-> [x \in {ColOcc, ColInt} |-> 1]]>>]

SemInteracoes ==
  [cols |-> <<ColTopico, ColOcc>>,
   rows |-> <<[idx |-> 0, c |-> [x \in {ColTopico, ColOcc} |->
                                   IF x = ColTopico THEN "T1" ELSE 1]]>>]

InitC ==
  /\ ForaG
  /\ ForaW
  /\ ForaM
  /\ ForaI
  /\ ForaD
  /\ keys = <<>>
  /\ \E a \in Snapshots(FormasAtual, ContagensAtual) \cup {SemTopico, SemInteracoes} :
       \E b \in Snapshots(FormasAnterior, ContagensAnterior) \cup {SemTopico, SemInteracoes} :
         heap = <<a, b>>
  /\ tab_atual = 1
  /\ tab_anterior = 2
  /\ df_atual = 0
  /\ df_anterior = 0
  /\ df_merged = 0
  /\ df_occ_melt = 0
  /\ df_int_melt = 0
  /\ retorno = SemResultado
  /\ faseC = "inicio"

\* Object identities carry no meaning beyond equality: after a step every
\* live object is renumbered to the position of the first variable that
\* refers to it, and the objects no variable refers to are dropped.
\* refs: the references held after the step, 0 for None.
Compacta(h, refs) ==
  LET pos(r) == Min({p \in DOMAIN refs : refs[p] = r})
      live == {pos(refs[p]) : p \in {q \in DOMAIN refs : refs[q] # 0}}
  IN [heap |-> [p \in live |-> h[refs[p]]],
      refs |-> [p \in DOMAIN refs |-> IF refs[p] = 0 THEN 0 ELSE pos(refs[p])]]

\* the heap and the fields of k, the value returned or raised
PoeC(k, out) ==
  /\ heap' = k.heap
  /\ tab_atual' = k.refs[1]
  /\ tab_anterior' = k.refs[2]
  /\ df_atual' = k.refs[3]
  /\ df_anterior' = k.refs[4]
  /\ df_merged' = k.refs[5]
  /\ df_occ_melt' = k.refs[6]
  /\ df_int_melt' = k.refs[7]
  /\ retorno' = out

\* the step leaves the comparator with heap h and the fields a, b, m, o, i
FicaC(h, a, b, m, o, i, out) ==
  PoeC(Compacta(h, <<tab_atual, tab_anterior, a, b, m, o, i>>), out)

FicaConstruir(r) == FicaC(r.heap, r.atual, r.anterior, 0, 0, 0, Ret(0))

\* ComparadorMonitoramentoPoPeriodo(tab_atual, tab_anterior)
Construir ==
  /\ faseC = "inicio"
  /\ FicaConstruir(Comparador_init(heap, tab_atual, tab_anterior))
  /\ faseC' = "construido"
  /\ UNCHANGED <<varsM, varsI, varsD, varsW, varsG>>

FicaCalcular(r) ==
  FicaC(r.heap, df_atual, df_anterior, r.merged, df_occ_melt, df_int_melt, r.out)

CalcularDiferencas ==
  /\ faseC = "construido"
  /\ FicaCalcular(calcular_diferencas(heap, df_atual, df_anterior, df_merged))
  /\ UNCHANGED <<faseC, varsM, varsI, varsD, varsW, varsG>>

FicaPreparar(r) ==
  FicaC(r.heap, df_atual, df_anterior, r.merged, r.occ, r.int, r.out)

PrepararLongos ==
  /\ faseC = "construido"
  /\ FicaPreparar(preparar_longos(heap, df_atual, df_anterior, df_merged,
                                  df_occ_melt, df_int_melt))
  /\ UNCHANGED <<faseC, varsM, varsI, varsD, varsW, varsG>>

FicaPlotar(r) ==
  /\ FicaC(r.heap, df_atual, df_anterior, r.merged, r.occ, r.int, r.out)
  /\ figura' = r.fig

PlotarOcorrencias ==
  /\ faseC = "construido"
  /\ FicaPlotar(plotar_ocorrencias(heap, df_atual, df_anterior, df_merged,
                                   df_occ_melt, df_int_melt, figura))
  /\ UNCHANGED <<faseC, varsM, varsI, monitoramento, faseD, varsW, varsG>>

PlotarInteracoes ==
  /\ faseC = "construido"
  /\ FicaPlotar(plotar_interacoes(heap, df_atual, df_anterior, df_merged,
                                  df_occ_melt, df_int_melt, figura))
  /\ UNCHANGED <<faseC, varsM, varsI, monitoramento, faseD, varsW, varsG>>

NextC ==
  \/ Construir
  \/ CalcularDiferencas
  \/ PrepararLongos
  \/ PlotarOcorrencias
  \/ PlotarInteracoes

SpecC == InitC /\ [][NextC]_vars

(***************************************************************************)
(* Claims on the comparison table.                                         *)
(***************************************************************************)
TopicosDe(t) == {t.rows[i].c[ColTopico] : i \in DOMAIN t.rows}

\* C9: the comparison table holds exactly the topics present in both the
\* current and the previous snapshot.
C9_TopicosEmAmbos ==
  df_merged # 0 =>
    TopicosDe(heap[df_merged]) = TopicosDe(heap[df_atual]) \cap TopicosDe(heap[df_anterior])

C9_Witness ==
  /\ df_merged # 0
  /\ TopicosDe(heap[df_atual]) = {"T1", "T2"}
  /\ TopicosDe(heap[df_anterior]) = {"T1"}
  /\ TopicosDe(heap[df_merged]) = {"T1"}
  /\ Len(heap[df_merged].rows) = 1

\* p is the float diff / prev * 100
EhPercentual(p, diff, prev) ==
  IF prev = 0
  THEN p.t = (IF diff > 0 THEN "inf" ELSE IF diff < 0 THEN "-inf" ELSE "nan")
  ELSE p.t = "float" /\ p.den > 0 /\ p.num * prev = diff * 100 * p.den

\* C10: every row of the comparison table pairs a current and a previous
\* row of the same topic, its two diffs are current minus previous and its
\* two percentages are diff / previous * 100.
C10_DiferencasPorLinha ==
  df_merged # 0 =>
    \A k \in DOMAIN heap[df_merged].rows :
      LET m == heap[df_merged].rows[k].c
      IN /\ \E i \in DOMAIN heap[df_atual].rows, j \in DOMAIN heap[df_anterior].rows :
              LET a == heap[df_atual].rows[i].c
                  b == heap[df_anterior].rows[j].c
              IN /\ a[ColTopico] = m[ColTopico]
                 /\ b[ColTopico] = m[ColTopico]
                 /\ m[ColOcc \o SufAtual] = a[ColOcc \o SufAtual]
                 /\ m[ColInt \o SufAtual] = a[ColInt \o SufAtual]
                 /\ m[ColOcc \o SufAnterior] = b[ColOcc \o SufAnterior]
                 /\ m[ColInt \o SufAnterior] = b[ColInt \o SufAnterior]
         /\ m[ColDiffOcc] = m[ColOcc \o SufAtual] - m[ColOcc \o SufAnterior]
         /\ m[ColDiffInt] = m[ColInt \o SufAtual] - m[ColInt \o SufAnterior]
         /\ EhPercentual(m[ColPercOcc], m[ColDiffOcc], m[ColOcc \o SufAnterior])
         /\ EhPercentual(m[ColPercInt], m[ColDiffInt], m[ColInt \o SufAnterior])

\* the worked example: 120 against 100 and 500 against 400
C10_Witness ==
  /\ df_merged # 0
  /\ Len(heap[df_merged].rows) = 1
  /\ LET m == heap[df_merged].rows[1].c
     IN /\ m[ColTopico] = "T1"
        /\ m[ColOcc \o SufAtual] = 120
        /\ m[ColOcc \o SufAnterior] = 100
        /\ m[ColInt \o SufAtual] = 500
        /\ m[ColInt \o SufAnterior] = 400
        /\ m[ColDiffOcc] = 20
        /\ m[ColPercOcc] = [t |-> "float", num |-> 20, den |-> 1]
        /\ m[ColDiffInt] = 100
        /\ m[ColPercInt] = [t |-> "float", num |-> 25, den |-> 1]

(***************************************************************************)
(* MetricsProcessor daily plots: plot_daily_metrics,                       *)
(* plot_daily_occurrences and plot_daily_interactions.  What is drawn is   *)
(* kept in figura: the points of the line(s) and the annotated labels.     *)
(***************************************************************************)
ColData == <<"data">>

ColConteudo == <<"conteudo.keyword">>

ColInteracoesDia == <<"interacoes">>

ColDataDia == <<"Data">>

ColDataDateTime == <<"DataDateTime">>

ColDataSomenteDia == <<"DataSomenteDia">>

NaT == [t |-> "NaT"]

Timestamp(y, m, d) == [t |-> "date", y |-> y, m |-> m, d |-> d]

DiasNoMes(y, m) ==
  IF m = 2
  THEN (IF (y % 4 = 0 /\ y % 100 # 0) \/ y % 400 = 0 THEN 29 ELSE 28)
  ELSE IF m \in {4, 6, 9, 11} THEN 30 ELSE 31

\* the text is YYYY-MM-DD
FormaISO(s) ==
  /\ Len(s) = 10
  /\ \A i \in {1, 2, 3, 4, 6, 7, 9, 10} : IsDigit(s[i])
  /\ s[5] = "-"
  /\ s[8] = "-"

\* pd.to_datetime of one cell: a missing value gives NaT, a date text its
\* timestamp; any other text gives NaT under errors='coerce' and raises
\* otherwise
to_datetime(x, coerce) ==
  IF x = PyNone \/ x = NaT THEN Ret(NaT)
  ELSE IF x.t = "date" THEN Ret(x)
  ELSE IF x.t = "str" /\ FormaISO(x.s)
  THEN LET y == NatOf(x.s, 1, 5)
           m == NatOf(x.s, 6, 8)
           d == NatOf(x.s, 9, 11)
       IN IF y >= 1 /\ m \in 1..12 /\ d >= 1 /\ d <= DiasNoMes(y, m)
          THEN Ret(Timestamp(y, m, d))
          ELSE IF coerce THEN Ret(NaT) ELSE Raise("ValueError")
  ELSE IF coerce THEN Ret(NaT) ELSE Raise("ValueError")

\* n written with at least w digits
RECURSIVE ZeroPad(_, _)
ZeroPad(s, w) == IF Len(s) >= w THEN s ELSE ZeroPad(<<"0">> \o s, w)

FmtDiaMesAno == "%d-%m-%Y"

FmtDiaMes == "%d-%m"

\* .dt.strftime(fmt) of one timestamp
strftime(d, fmt) ==
  ZeroPad(NatToText(d.d), 2) \o <<"-">> \o ZeroPad(NatToText(d.m), 2)
    \o (IF fmt = FmtDiaMesAno THEN <<"-">> \o ZeroPad(NatToText(d.y), 4) ELSE <<>>)

DateKey(d) == (d.y * 100 + d.m) * 100 + d.d

\* the group keys of groupby(col): distinct, ascending, missing ones dropped
RECURSIVE SortDates(_)
SortDates(S) ==
  IF S = {} THEN <<>>
  ELSE LET d == CHOOSE x \in S : \A y \in S : DateKey(x) <= DateKey(y)
       IN <<d>> \o SortDates(S \ {d})

GroupKeys(rows, col) ==
  SortDates({rows[i].c[col] : i \in DOMAIN rows} \ {NaT})

GroupSize(rows, col, k) == Cardinality({i \in DOMAIN rows : rows[i].c[col] = k})

RECURSIVE GroupSum(_, _, _, _, _)
GroupSum(rows, col, k, val, i) ==
  IF i > Len(rows) THEN 0
  ELSE (IF rows[i].c[col] = k THEN rows[i].c[val] ELSE 0) + GroupSum(rows, col, k, val, i + 1)

RECURSIVE TakeRows(_, _, _)
TakeRows(rows, keep, i) ==
  IF i > Len(rows) THEN <<>>
  ELSE (IF keep[i] THEN <<rows[i]>> ELSE <<>>) \o TakeRows(rows, keep, i + 1)

\* df[mask] : always a new object
BoolMask(h, r, keep) ==
  Alloc(h, [cols |-> h[r].cols, rows |-> TakeRows(h[r].rows, keep, 1)])

\* the annotations whose date is a label of the plotted line
RECURSIVE Anotados(_, _, _)
Anotados(annotations, labels, i) ==
  IF i > Len(annotations) THEN <<>>
  ELSE (IF annotations[i] \in labels THEN <<annotations[i]>> ELSE <<>>)
       \o Anotados(annotations, labels, i + 1)

SemFigura == <<>>

\* the points of the line: one per day, in date order
SerieDiaria(rows, ks, date_format, soma) ==
  [j \in DOMAIN ks |->
     [x |-> strftime(ks[j], date_format),
      Total |-> IF soma THEN GroupSum(rows, ColDataDia, ks[j], ColInteracoesDia, 1)
                ELSE GroupSize(rows, ColDataDia, ks[j])]]

\* plt.plot, plt.ylim and the annotations; the y limit is the maximum of
\* the line, which no empty line has
LinhaDesenhada(h, linha, annotations) ==
  IF Len(linha) = 0
  THEN [heap |-> h, out |-> Raise("ValueError"),
        fig |-> [linha |-> linha, anotacoes |-> <<>>]]
  ELSE [heap |-> h, out |-> Ret(PyNone),
        fig |-> [linha |-> linha,
                 anotacoes |-> Anotados(annotations,
                                        {linha[j].x : j \in DOMAIN linha}, 1)]]

\* b is the table of the monitoramento: groupby('Data')
LinhaAgrupada(b, annotations, date_format, soma) ==
  IF soma /\ ColInteracoesDia \notin Range(b.heap[b.ref].cols)
  THEN [heap |-> b.heap, out |-> Raise("KeyError"), fig |-> SemFigura]
  ELSE LinhaDesenhada(b.heap,
                      SerieDiaria(b.heap[b.ref].rows,
                                  GroupKeys(b.heap[b.ref].rows, ColDataDia),
                                  date_format, soma),
                      annotations)

\* df = df[df['monitoramento_nome.keyword'] == monitoramento]
LinhaFiltrada(h, r, mon, annotations, date_format, soma) ==
  IF ColTopico \notin Range(h[r].cols)
  THEN [heap |-> h, out |-> Raise("KeyError"), fig |-> SemFigura]
  ELSE LinhaAgrupada(BoolIndex(h, r, ColTopico, mon), annotations, date_format, soma)

\* df['Data'] = pd.to_datetime(df[date_column]).dt.date, on the selection a
LinhaDatada(a, mon, annotations, date_format, soma) ==
  LinhaFiltrada(SetColumn(a.heap, a.ref, ColDataDia,
                          [i \in DOMAIN a.heap[a.ref].rows |->
                             to_datetime(a.heap[a.ref].rows[i].c[ColData], FALSE).v]),
                a.ref, mon, annotations, date_format, soma)

\* the common body of plot_daily_occurrences (soma = FALSE: group sizes)
\* and plot_daily_interactions (soma = TRUE: sums of interacoes);
\* [heap, out, fig]
plot_daily_line(h, d, mon, annotations, date_format, soma) ==
  IF ColData \notin Range(h[d].cols)
  THEN [heap |-> h, out |-> Raise("KeyError"), fig |-> SemFigura]
  ELSE LinhaDatada(BoolMask(h, d, [i \in DOMAIN h[d].rows |->
                                     to_datetime(h[d].rows[i].c[ColData], TRUE).v # NaT]),
                   mon, annotations, date_format, soma)

plot_daily_occurrences(h, d, mon, annotations, date_format) ==
  plot_daily_line(h, d, mon, annotations, date_format, FALSE)

plot_daily_interactions(h, d, mon, annotations, date_format) ==
  plot_daily_line(h, d, mon, annotations, date_format, TRUE)

\* the two lines of plot_daily_metrics: one point per day, in date order
SerieMetricas(rows, ks) ==
  [j \in DOMAIN ks |->
     [x |-> strftime(ks[j], FmtDiaMes),
      Ocorrencias |-> GroupSize(rows, ColDataSomenteDia, ks[j]),
      Interacoes |-> GroupSum(rows, ColDataSomenteDia, ks[j], ColInteracoesDia, 1)]]

\* f is df_filtro: groupby('DataSomenteDia').agg(...), then the two plots
MetricasAgrupadas(f) ==
  IF ~({ColConteudo, ColInteracoesDia} \subseteq Range(f.heap[f.ref].cols))
  THEN [heap |-> f.heap, out |-> Raise("KeyError"), fig |-> SemFigura]
  ELSE [heap |-> f.heap, out |-> Ret(PyNone),
        fig |-> [linha |-> SerieMetricas(f.heap[f.ref].rows,
                                         GroupKeys(f.heap[f.ref].rows, ColDataSomenteDia)),
                 anotacoes |-> <<>>]]

\* df_filtro = df_copy[df_copy['monitoramento_nome.keyword'] == monitoramento]
MetricasFiltradas(h, r, mon) ==
  IF ColTopico \notin Range(h[r].cols)
  THEN [heap |-> h, out |-> Raise("KeyError"), fig |-> SemFigura]
  ELSE MetricasAgrupadas(BoolIndex(h, r, ColTopico, mon))

\* conv are the results of pd.to_datetime row by row: the columns
\* DataDateTime and DataSomenteDia of df_copy
MetricasDatadas(h, r, mon, conv) ==
  IF \E i \in DOMAIN conv : conv[i].t = "raise"
  THEN [heap |-> h, out |-> PrimeiroErro(conv), fig |-> SemFigura]
  ELSE MetricasFiltradas(
         SetColumn(SetColumn(h, r, ColDataDateTime, [i \in DOMAIN conv |-> conv[i].v]),
                   r, ColDataSomenteDia, [i \in DOMAIN conv |-> conv[i].v]),
         r, mon)

\* c is df_copy
MetricasCopia(c, mon) ==
  IF ColData \notin Range(c.heap[c.ref].cols)
  THEN [heap |-> c.heap, out |-> Raise("KeyError"), fig |-> SemFigura]
  ELSE MetricasDatadas(c.heap, c.ref, mon,
                       [i \in DOMAIN c.heap[c.ref].rows |->
                          to_datetime(c.heap[c.ref].rows[i].c[ColData], FALSE)])

\* plot_daily_metrics(df, monitoramento, top_title): [heap, out, fig]
plot_daily_metrics(h, d, mon) == MetricasCopia(DataFrameCopy(h, d), mon)

(***************************************************************************)
(* Calls of the daily plots on a caller's table of records.                *)
(***************************************************************************)
Dia14 == <<"2", "0", "2", "5", "-", "0", "3", "-", "1", "4">>

Dia02 == <<"2", "0", "2", "5", "-", "0", "3", "-", "0", "2">>

Dia30Fev == <<"2", "0", "2", "5", "-", "0", "2", "-", "3", "0">>

\* contents of the data field
Datas == {PyStr(Dia14), PyStr(Dia02), PyStr(Dia30Fev), PyStr(<<"x", "x">>), PyNone}

Registros == {[data |-> dt, topico |-> tp, inter |-> MaxValor] : dt \in Datas, tp \in {"T1", "T2"}}

ColunasDia ==
  {<<ColData, ColTopico, ColConteudo, ColInteracoesDia>>,
   <<ColTopico, ColConteudo, ColInteracoesDia>>,
   <<ColData, ColConteudo, ColInteracoesDia>>,
   <<ColData, ColTopico>>}

TabelaDia(cols, regs) ==
  [cols |-> cols,
   rows |-> [i \in DOMAIN regs |->
               [idx |-> i - 1,
                c |-> [x \in Range(cols) |->
                         IF x = ColData THEN regs[i].data
                         ELSE IF x = ColTopico THEN regs[i].topico
                         ELSE IF x = ColInteracoesDia THEN regs[i].inter
                         ELSE "texto"]]]]

\* annotation dates as the caller writes them
Anotacoes ==
  {<<>>, <<<<"1", "4", "-", "0", "3", "-", "2", "0", "2", "5">>,
          <<"1", "4", "-", "0", "3">>>>}

InitD ==
  /\ ForaG
  /\ ForaW
  /\ ForaM
  /\ ForaC
  /\ keys = <<>>
  /\ service = ""
  /\ faseI = "fora"
  /\ df = 1
  /\ \E cols \in ColunasDia : \E n \in 0..2 : \E regs \in [1..n -> Registros] :
       heap = <<TabelaDia(cols, regs)>>
  /\ retorno = SemResultado
  /\ monitoramento = "T1"
  /\ figura = SemFigura
  /\ faseD = "pronto"

\* the call returns: its local tables are dropped, the figure is shown
FicaD(r, nome) ==
  /\ heap' = Collect(r.heap, {df})
  /\ retorno' = r.out
  /\ figura' = r.fig
  /\ faseD' = nome
  /\ UNCHANGED <<monitoramento, varsM, varsI, varsC, varsW, varsG>>

PlotDailyMetrics ==
  /\ faseD = "pronto"
  /\ FicaD(plot_daily_metrics(heap, df, monitoramento), "plot_daily_metrics")

PlotDailyOccurrences ==
  /\ faseD = "pronto"
  /\ \E an \in Anotacoes : \E fmt \in {FmtDiaMesAno, FmtDiaMes} :
       FicaD(plot_daily_occurrences(heap, df, monitoramento, an, fmt),
             "plot_daily_occurrences")

PlotDailyInteractions ==
  /\ faseD = "pronto"
  /\ \E an \in Anotacoes : \E fmt \in {FmtDiaMesAno, FmtDiaMes} :
       FicaD(plot_daily_interactions(heap, df, monitoramento, an, fmt),
             "plot_daily_interactions")

NextD == PlotDailyMetrics \/ PlotDailyOccurrences \/ PlotDailyInteractions

SpecD == InitD /\ [][NextD]_vars

(***************************************************************************)
(* Every operation on tables, each on the inputs of its own caller.        *)
(***************************************************************************)
InitT == InitI \/ InitC \/ InitD

NextT == NextI \/ NextC \/ NextD

SpecT == InitT /\ [][NextT]_vars

\* C8: no operation changes a table supplied by the caller: across every
\* call of calcula_interacoes, process_service, the comparator's
\* construction, calcular_diferencas, preparar_longos and the daily plots,
\* each caller-held table keeps its columns, rows and values.
C8_EntradasIntactas ==
  [][/\ (df # 0 => df' # 0 /\ heap'[df'] = heap[df])
     /\ (tab_atual # 0 => tab_atual' # 0 /\ heap'[tab_atual'] = heap[tab_atual])
     /\ (tab_anterior # 0 =>
           tab_anterior' # 0 /\ heap'[tab_anterior'] = heap[tab_anterior])]_vars

\* the comparator has renamed and extended its own tables while the
\* caller's snapshots still have their three columns
C8_Witness ==
  /\ df_merged # 0
  /\ heap[tab_atual].cols = <<ColTopico, ColOcc, ColInt>>
  /\ heap[tab_anterior].cols = <<ColTopico, ColOcc, ColInt>>
  /\ df_atual # tab_atual
  /\ ColOcc \o SufAtual \in Range(heap[df_atual].cols)
  /\ ColDiffOcc \in Range(heap[df_merged].cols)
  /\ Len(heap[df_merged].rows) > 0

(***************************************************************************)
(* Claims on zero counts and on schema errors of the comparison.           *)
(***************************************************************************)
Indefinido(p) == p.t \in {"inf", "-inf", "nan"}

\* a column the comparison needs is absent from a caller's snapshot
SchemaViolado ==
  \/ ~({ColTopico, ColOcc, ColInt} \subseteq Range(heap[tab_atual].cols))
  \/ ~({ColTopico, ColOcc, ColInt} \subseteq Range(heap[tab_anterior].cols))

\* the percentage p of a row with difference diff and previous count prev:
\* undefined exactly when prev is 0, the quotient otherwise
PercentualDaLinha(p, diff, prev) ==
  /\ prev = 0 => Indefinido(p)
  /\ prev # 0 => p.t = "float" /\ p.den > 0 /\ p.num * prev = diff * 100 * p.den

\* C11: with well-formed snapshots no comparator step raises, whatever the
\* counts; in the comparison table a row whose previous count is 0 has an
\* undefined percentage (inf, -inf or nan) and its diff is the current
\* count, and every other row has its finite percentage.
C11_DivisaoPorZero ==
  /\ (faseC = "construido" /\ ~SchemaViolado) => retorno.t = "ret"
  /\ df_merged # 0 =>
       \A k \in DOMAIN heap[df_merged].rows :
         LET m == heap[df_merged].rows[k].c
         IN /\ PercentualDaLinha(m[ColPercOcc], m[ColDiffOcc], m[ColOcc \o SufAnterior])
            /\ PercentualDaLinha(m[ColPercInt], m[ColDiffInt], m[ColInt \o SufAnterior])
            /\ m[ColOcc \o SufAnterior] = 0 => m[ColDiffOcc] = m[ColOcc \o SufAtual]
            /\ m[ColInt \o SufAnterior] = 0 => m[ColDiffInt] = m[ColInt \o SufAtual]

\* one topic went from 0 to a positive count (inf) with 0 interactions in
\* both periods (nan), next to a topic with a finite percentage
C11_Witness ==
  /\ df_merged # 0
  /\ retorno.t = "ret"
  /\ Len(heap[df_merged].rows) = 2
  /\ LET a == heap[df_merged].rows[1].c
         b == heap[df_merged].rows[2].c
     IN /\ a[ColOcc \o SufAnterior] = 0
        /\ a[ColOcc \o SufAtual] = 1
        /\ a[ColDiffOcc] = 1
        /\ a[ColPercOcc] = FInf
        /\ a[ColInt \o SufAnterior] = 0
        /\ a[ColInt \o SufAtual] = 0
        /\ a[ColPercInt] = FNaN
        /\ b[ColOcc \o SufAnterior] = 1
        /\ b[ColOcc \o SufAtual] = 0
        /\ b[ColPercOcc] = [t |-> "float", num |-> -100, den |-> 1]

\* C12: when the topic column or a count column is absent from either
\* snapshot, every comparison step raises KeyError to the caller and leaves
\* df_merged, df_occ_melt and df_int_melt unset.
C12_ErroDeEsquema ==
  [][(faseC = "construido" /\ SchemaViolado) =>
       /\ retorno'.t = "raise"
       /\ retorno'.exc = "KeyError"
       /\ df_merged' = 0
       /\ df_occ_melt' = 0
       /\ df_int_melt' = 0]_vars

C12_Witness ==
  /\ faseC = "construido"
  /\ ColTopico \in Range(heap[tab_atual].cols)
  /\ ColInt \notin Range(heap[tab_atual].cols)
  /\ {ColTopico, ColOcc, ColInt} \subseteq Range(heap[tab_anterior].cols)
  /\ retorno = Raise("KeyError")
  /\ df_merged = 0
  /\ df_occ_melt = 0
  /\ df_int_melt = 0

(***************************************************************************)
(* Claims on the long tables.                                              *)
(***************************************************************************)
RotuloAtual == <<"Atual">>

RotuloAnterior == <<"Anterior">>

\* the long table l has two rows for each row of the comparison table m,
\* both with that row's topic, diff and percentage
DuasPorLinha(l, m, diff, perc) ==
  /\ Len(l.rows) = 2 * Len(m.rows)
  /\ \A k \in DOMAIN m.rows : \A j \in {k, k + Len(m.rows)} :
       /\ l.rows[j].c[ColTopico] = m.rows[k].c[ColTopico]
       /\ l.rows[j].c[diff] = m.rows[k].c[diff]
       /\ l.rows[j].c[perc] = m.rows[k].c[perc]
  /\ \A tp \in TopicosDe(m) :
       Cardinality({j \in DOMAIN l.rows : l.rows[j].c[ColTopico] = tp})
         = 2 * Cardinality({k \in DOMAIN m.rows : m.rows[k].c[ColTopico] = tp})

\* C13: a comparison table of N rows, one per topic, is reshaped into 2N
\* rows of the occurrences long table and 2N rows of the interactions long
\* table; the two rows of a topic carry the diff and the percentage of its
\* comparison row.
C13_DuasLinhasPorTopico ==
  df_occ_melt # 0 =>
    /\ df_merged # 0
    /\ df_int_melt # 0
    /\ DuasPorLinha(heap[df_occ_melt], heap[df_merged], ColDiffOcc, ColPercOcc)
    /\ DuasPorLinha(heap[df_int_melt], heap[df_merged], ColDiffInt, ColPercInt)

C13_Witness ==
  /\ df_occ_melt # 0
  /\ df_int_melt # 0
  /\ TopicosDe(heap[df_merged]) = {"T1", "T2"}
  /\ Len(heap[df_merged].rows) = 2
  /\ Len(heap[df_occ_melt].rows) = 4
  /\ Len(heap[df_int_melt].rows) = 4
  /\ heap[df_occ_melt].rows[1].c[ColPercOcc] # heap[df_occ_melt].rows[2].c[ColPercOcc]
  /\ heap[df_occ_melt].rows[1].c[ColPercOcc] = heap[df_occ_melt].rows[3].c[ColPercOcc]

\* every row of the long table l is labelled Atual or Anterior and carries
\* the cur, respectively prev, value of a comparison row of its topic; each
\* comparison row has its Atual row and its Anterior row
RotulosPareados(l, m, cur, prev, valn) ==
  /\ \A j \in DOMAIN l.rows :
       /\ l.rows[j].c[ColSemana] \in {RotuloAtual, RotuloAnterior}
       /\ \E k \in DOMAIN m.rows :
            /\ m.rows[k].c[ColTopico] = l.rows[j].c[ColTopico]
            /\ l.rows[j].c[valn] = IF l.rows[j].c[ColSemana] = RotuloAtual
                                   THEN m.rows[k].c[cur] ELSE m.rows[k].c[prev]
  /\ \A k \in DOMAIN m.rows :
       /\ \E j \in DOMAIN l.rows :
            /\ l.rows[j].c[ColTopico] = m.rows[k].c[ColTopico]
            /\ l.rows[j].c[ColSemana] = RotuloAtual
            /\ l.rows[j].c[valn] = m.rows[k].c[cur]
       /\ \E j \in DOMAIN l.rows :
            /\ l.rows[j].c[ColTopico] = m.rows[k].c[ColTopico]
            /\ l.rows[j].c[ColSemana] = RotuloAnterior
            /\ l.rows[j].c[valn] = m.rows[k].c[prev]

\* C14: in both long tables the row labelled Atual of a topic carries its
\* current-period value, the row labelled Anterior its previous-period
\* value, and Semana holds no other label.
C14_RotuloEValor ==
  df_occ_melt # 0 /\ df_int_melt # 0 =>
    /\ RotulosPareados(heap[df_occ_melt], heap[df_merged],
                       ColOcc \o SufAtual, ColOcc \o SufAnterior, ColOcorrencias)
    /\ RotulosPareados(heap[df_int_melt], heap[df_merged],
                       ColInt \o SufAtual, ColInt \o SufAnterior, ColInteracoes)

\* the worked example: T1 with 120 occurrences now and 100 before
C14_Witness ==
  /\ df_occ_melt # 0
  /\ Len(heap[df_occ_melt].rows) = 2
  /\ \E j \in {1, 2} :
       /\ heap[df_occ_melt].rows[j].c[ColTopico] = "T1"
       /\ heap[df_occ_melt].rows[j].c[ColSemana] = RotuloAtual
       /\ heap[df_occ_melt].rows[j].c[ColOcorrencias] = 120
  /\ \E j \in {1, 2} :
       /\ heap[df_occ_melt].rows[j].c[ColTopico] = "T1"
       /\ heap[df_occ_melt].rows[j].c[ColSemana] = RotuloAnterior
       /\ heap[df_occ_melt].rows[j].c[ColOcorrencias] = 100

\* the columns of the long table l are those of one metric family, in
\* every row
SoDaFamilia(l, diff, perc, valn) ==
  /\ l.cols = <<ColTopico, diff, perc, ColSemana, valn>>
  /\ \A j \in DOMAIN l.rows : DOMAIN l.rows[j].c = {ColTopico, diff, perc, ColSemana, valn}

\* C15: the long tables are two distinct tables, set together; the
\* occurrences one has the columns topic, diff_ocorrencias,
\* perc_ocorrencias, Semana, Ocorrencias and nothing of the interactions,
\* the interactions one has topic, diff_interacoes, perc_interacoes,
\* Semana, Interacoes and nothing of the occurrences.
C15_DuasTabelas ==
  (df_occ_melt # 0 \/ df_int_melt # 0) =>
    /\ df_occ_melt # 0
    /\ df_int_melt # 0
    /\ df_occ_melt # df_int_melt
    /\ df_occ_melt \notin {tab_atual, tab_anterior, df_atual, df_anterior, df_merged}
    /\ df_int_melt \notin {tab_atual, tab_anterior, df_atual, df_anterior, df_merged}
    /\ SoDaFamilia(heap[df_occ_melt], ColDiffOcc, ColPercOcc, ColOcorrencias)
    /\ SoDaFamilia(heap[df_int_melt], ColDiffInt, ColPercInt, ColInteracoes)

C15_Witness ==
  /\ df_occ_melt # 0
  /\ df_int_melt # 0
  /\ df_occ_melt # df_int_melt
  /\ Len(heap[df_occ_melt].rows) = 2
  /\ heap[df_occ_melt].rows[1].c[ColOcorrencias] = 1
  /\ heap[df_int_melt].rows[1].c[ColInteracoes] = MaxCont + 2
  /\ ColInteracoes \notin Range(heap[df_occ_melt].cols)
  /\ ColOcorrencias \notin Range(heap[df_int_melt].cols)

\* the comparator is fresh: built, and no step has set a field yet
Fresco ==
  /\ faseC = "construido"
  /\ df_merged = 0
  /\ df_occ_melt = 0
  /\ df_int_melt = 0

\* the field ref of the next state holds what e holds under r (or both none)
MesmaTabela(ref, e, r) ==
  IF r = 0 THEN ref' = 0 ELSE (ref' # 0 /\ heap'[ref'] = e.heap[r])

\* the next state is the comparator e: same outcome, same three tables
MesmoComparador(e) ==
  /\ retorno' = e.out
  /\ MesmaTabela(df_merged, e, e.merged)
  /\ MesmaTabela(df_occ_melt, e, e.occ)
  /\ MesmaTabela(df_int_melt, e, e.int)

\* calcular_diferencas() and then preparar_longos(), called one after the
\* other on the comparator as it is
LongosAposCalculo(c) ==
  preparar_longos(c.heap, df_atual, df_anterior, c.merged, df_occ_melt, df_int_melt)

EmOrdem == LongosAposCalculo(calcular_diferencas(heap, df_atual, df_anterior, df_merged))

OcorrenciasAposLongos(p) ==
  plotar_ocorrencias(p.heap, df_atual, df_anterior, p.merged, p.occ, p.int, figura)

InteracoesAposLongos(p) ==
  plotar_interacoes(p.heap, df_atual, df_anterior, p.merged, p.occ, p.int, figura)

MesmoGrafico(e) == MesmoComparador(e) /\ figura' = e.fig

\* C16: on a fresh comparator, preparar_longos alone, plotar_ocorrencias
\* alone and plotar_interacoes alone each leave the comparator (comparison
\* table, long tables, outcome, figure) exactly as calling
\* calcular_diferencas, then preparar_longos, then the plot would.
C16_PreRequisitos ==
  [][Fresco =>
       /\ PrepararLongos => MesmoComparador(EmOrdem)
       /\ PlotarOcorrencias => MesmoGrafico(OcorrenciasAposLongos(EmOrdem))
       /\ PlotarInteracoes => MesmoGrafico(InteracoesAposLongos(EmOrdem))]_vars

C16_Witness ==
  /\ faseC = "construido"
  /\ figura # SemFigura
  /\ figura.arquivo = ArquivoInteracoes
  /\ retorno = RetCaminho(ArquivoInteracoes)
  /\ df_merged # 0
  /\ df_occ_melt # 0
  /\ Len(heap[df_merged].rows) = 2
  /\ Len(figura.barras) = 4
  /\ figura.barras[1].hue = <<"Atual">>
  /\ figura.barras[1].cor = "green"
  /\ figura.barras[2].cor = "red"
  /\ figura.barras[3].cor = "black"
  /\ figura.barras[3].x = heap[df_int_melt].rows[3].c[ColInteracoes]

(***************************************************************************)
(* dropdown_utils: cria_dropdown_filtrador, its callback _atualiza_display *)
(* and exibe_dropdown_filtrador.  The table is heap[df]; the arguments of  *)
(* the call are kept, as the callback closes over them.                    *)
(***************************************************************************)
\* most rows of the table handed to the dropdown
MaxLinhas == 3

ColGrupo == <<"servico.keyword">>

ColPeso == <<"interacoes">>

\* a name no table has
ColAusente == <<"ausente">>

\* the empty string, which may name a column
ColVazia == <<>>

\* bool(x) of an optional text: None and "" are false
Truthy(x) == x.t = "str" /\ x.s # <<>>

\* ord(c) of the characters the values are written with
CodePoint(c) ==
  CASE c = "B" -> 66
    [] c = "a" -> 97
    [] c = "b" -> 98
    [] OTHER -> 0

\* a < b on str, from position i on
RECURSIVE StrLess(_, _, _)
StrLess(a, b, i) ==
  IF i > Len(b) THEN FALSE
  ELSE IF i > Len(a) THEN TRUE
  ELSE IF CodePoint(a[i]) # CodePoint(b[i]) THEN CodePoint(a[i]) < CodePoint(b[i])
  ELSE StrLess(a, b, i + 1)

\* x put into the sorted list s, after the values not greater than it
RECURSIVE Inserido(_, _, _)
Inserido(s, x, i) ==
  IF i > Len(s) THEN Append(s, x)
  ELSE IF StrLess(x.s, s[i].s, 1)
  THEN SubSeq(s, 1, i - 1) \o <<x>> \o SubSeq(s, i, Len(s))
  ELSE Inserido(s, x, i + 1)

\* sorted(options)
RECURSIVE py_sorted(_, _, _)
py_sorted(options, i, acc) ==
  IF i > Len(options) THEN acc
  ELSE py_sorted(options, i + 1, Inserido(acc, options[i], 1))

\* variant: a value is listed every time it appears
RECURSIVE DropnaSemUnique(_, _, _, _)
DropnaSemUnique(rows, col, i, acc) ==
  IF i > Len(rows) THEN acc
  ELSE DropnaSemUnique(rows, col, i + 1,
                       IF rows[i].c[col] = PyNone THEN acc
                       ELSE Append(acc, rows[i].c[col]))

\* df[col].dropna().unique().tolist() : each value once, by first appearance
RECURSIVE DropnaUnique(_, _, _, _)
DropnaUnique(rows, col, i, acc) ==
  IF i > Len(rows) THEN acc
  ELSE DropnaUnique(rows, col, i + 1,
                    IF rows[i].c[col] = PyNone \/ rows[i].c[col] \in Range(acc) THEN acc
                    ELSE Append(acc, rows[i].c[col]))

RetWidgets == [t |-> "ret", tupla |-> <<"dropdown", "out">>]

\* widgets.Dropdown(options=..., description=...) with its observer, and
\* widgets.Output(); the first option is the selected one
Widgets(options, description) ==
  [out |-> RetWidgets,
   dropdown |-> [options |-> options,
                 value |-> IF options = <<>> THEN PyNone ELSE options[1],
                 description |-> description,
                 observers |-> <<"_atualiza_display">>],
   output |-> [outputs |-> <<>>]]

SemWidgets(e) == [out |-> Raise(e), dropdown |-> SemWidget, output |-> SemWidget]

\* [out, dropdown, output]
cria_dropdown_filtrador(h, d, cd, cs, descricao, ordenar) ==
  IF cd \notin Range(h[d].cols) THEN SemWidgets("ValueError")
  ELSE IF Truthy(cs) /\ cs.s \notin Range(h[d].cols) THEN SemWidgets("ValueError")
  ELSE Widgets(IF ordenar
               THEN py_sorted(DropnaUnique(h[d].rows, cd, 1, <<>>), 1, <<>>)
               ELSE DropnaUnique(h[d].rows, cd, 1, <<>>),
               IF Truthy(descricao) THEN descricao.s ELSE cd)

Permutacoes(n) == {p \in [1..n -> 1..n] : \A i, j \in 1..n : i # j => p[i] # p[j]}

Decrescente(rows, col) ==
  \A i \in 1..(Len(rows) - 1) : rows[i].c[col] >= rows[i + 1].c[col]

\* variant: ascending order
SortValuesCrescente(rows, col) ==
  {r \in {[i \in DOMAIN rows |-> rows[p[i]]] : p \in Permutacoes(Len(rows))} :
     \A i \in 1..(Len(r) - 1) : r[i].c[col] <= r[i + 1].c[col]}

\* df.sort_values(by=col, ascending=False): the default sort is not stable,
\* rows with equal keys come in any order
SortValues(rows, col) ==
  {r \in {[i \in DOMAIN rows |-> rows[p[i]]] : p \in Permutacoes(Len(rows))} :
     Decrescente(r, col)}

\* df.head(n), n >= 0
DfHead(rows, n) == SubSeq(rows, 1, IF n < Len(rows) THEN n ELSE Len(rows))

\* the tables _atualiza_display may show for the change event
atualiza_display(h, d, cd, cs, ln, change) ==
  IF change.type = "change" /\ change.name = "value"
  THEN {<<[cols |-> h[d].cols, rows |-> DfHead(r, ln)]>> :
          r \in IF Truthy(cs)
                THEN SortValues(SelectRows(h[d].rows, cd, change.new, 1), cs.s)
                ELSE {SelectRows(h[d].rows, cd, change.new, 1)}}
  ELSE {}

\* values of the dropdown column and of the sort column
RegistrosW ==
  {[grupo |-> g, peso |-> n] :
     g \in {PyStr(<<"a">>), PyStr(<<"B">>), PyNone}, n \in 0..1}

TabelaW(colsort, regs) ==
  [cols |-> <<ColGrupo, colsort>>,
   rows |-> [i \in DOMAIN regs |->
               [idx |-> i - 1,
                c |-> [x \in {ColGrupo, colsort} |->
                         IF x = ColGrupo THEN regs[i].grupo ELSE regs[i].peso]]]]

InitW ==
  /\ ForaG
  /\ ForaM
  /\ ForaC
  /\ ForaD
  /\ keys = <<>>
  /\ service = ""
  /\ faseI = "fora"
  /\ df = 1
  /\ \E colsort \in {ColPeso, ColVazia} : \E n \in 0..MaxLinhas :
       \E regs \in [1..n -> RegistrosW] :
         heap = <<TabelaW(colsort, regs)>>
  /\ retorno = SemResultado
  /\ coluna_dropdown = <<>>
  /\ coluna_sort = PyNone
  /\ linhas = 0
  /\ ordenar_dropdown = FALSE
  /\ dropdown = SemWidget
  /\ output_widget = SemWidget
  /\ faseW = "pronto"

\* the call made with (cd, cs, ln, ordenar) ends with r
FicaW(r, cd, cs, ln, ordenar, nome) ==
  /\ retorno' = r.out
  /\ dropdown' = r.dropdown
  /\ output_widget' = r.output
  /\ coluna_dropdown' = cd
  /\ coluna_sort' = cs
  /\ linhas' = ln
  /\ ordenar_dropdown' = ordenar
  /\ faseW' = IF r.out.t = "raise" THEN "falhou" ELSE nome
  /\ UNCHANGED <<heap, varsM, varsI, varsC, varsD, varsG>>

ArgsColunaDropdown == {ColGrupo, ColAusente}

ArgsColunaSort == {PyNone, PyStr(ColVazia), PyStr(ColPeso), PyStr(ColAusente)}

ArgsDescricao == {PyNone, PyStr(<<"Servico">>)}

CriaDropdownFiltrador ==
  /\ faseW = "pronto"
  /\ \E cd \in ArgsColunaDropdown : \E cs \in ArgsColunaSort :
       \E ln \in 0..(MaxLinhas - 1) : \E descricao \in ArgsDescricao :
         \E ordenar \in BOOLEAN :
           FicaW(cria_dropdown_filtrador(heap, df, cd, cs, descricao, ordenar),
                 cd, cs, ln, ordenar, "criado")

\* exibe_dropdown_filtrador: the same widgets, put on display
ExibeDropdownFiltrador ==
  /\ faseW = "pronto"
  /\ \E cd \in ArgsColunaDropdown : \E cs \in ArgsColunaSort :
       \E ln \in 0..(MaxLinhas - 1) : \E descricao \in ArgsDescricao :
         \E ordenar \in BOOLEAN :
           FicaW(cria_dropdown_filtrador(heap, df, cd, cs, descricao, ordenar),
                 cd, cs, ln, ordenar, "exibido")

\* the user picks another option: the value changes and the observer runs
Seleciona ==
  /\ faseW \in {"criado", "exibido"}
  /\ \E v \in Range(dropdown.options) \ {dropdown.value} :
       /\ dropdown' = [dropdown EXCEPT !.value = v]
       /\ output_widget' \in
            {[outputs |-> o] :
               o \in atualiza_display(heap, df, coluna_dropdown, coluna_sort, linhas,
                                      [type |-> "change", name |-> "value", new |-> v])}
  /\ UNCHANGED <<coluna_dropdown, coluna_sort, linhas, ordenar_dropdown, faseW,
                 varsT, varsM, varsI, varsC, varsD, varsG>>

NextW == CriaDropdownFiltrador \/ ExibeDropdownFiltrador \/ Seleciona

SpecW == InitW /\ [][NextW]_vars

\* the call of cria_dropdown_filtrador has ended
Chamado == faseW \in {"criado", "exibido", "falhou"}

\* C17: cria_dropdown_filtrador raises ValueError, with no widget and no
\* callback, when coluna_dropdown is not a column of df or when coluna_sort
\* is given and is not a column of df; with coluna_sort None and the
\* dropdown column present the call returns its widgets.
C17_ValueError ==
  Chamado =>
    /\ (\/ coluna_dropdown \notin Range(heap[df].cols)
        \/ (coluna_sort # PyNone /\ coluna_sort.s \notin Range(heap[df].cols)))
         => /\ retorno = Raise("ValueError")
            /\ dropdown = SemWidget
            /\ output_widget = SemWidget
    /\ (coluna_sort = PyNone /\ coluna_dropdown \in Range(heap[df].cols))
         => /\ retorno = RetWidgets
            /\ dropdown # SemWidget

\* the rows of the table with the selected value, in input order
Selecionadas == SelectRows(heap[df].rows, coluna_dropdown, dropdown.value, 1)

\* shown is the first ln rows of sel put in descending order of col
PrimeirasDecrescentes(shown, sel, col, ln) ==
  /\ Len(shown) = (IF ln < Len(sel) THEN ln ELSE Len(sel))
  /\ \A i \in DOMAIN shown : shown[i] \in Range(sel)
  /\ \A i, j \in DOMAIN shown : i # j => shown[i].idx # shown[j].idx
  /\ \A i \in 1..(Len(shown) - 1) : shown[i].c[col] >= shown[i + 1].c[col]
  /\ \A i \in DOMAIN shown : \A k \in DOMAIN sel :
       (\A j \in DOMAIN shown : shown[j].idx # sel[k].idx)
         => sel[k].c[col] <= shown[i].c[col]

\* C18: after a selection the output shows only rows of df with the
\* selected value: the first `linhas` of them in descending order of
\* coluna_sort when coluna_sort is given, the first `linhas` of them in
\* input order when it is None.
C18_FiltraOrdenaTrunca ==
  (faseW \in {"criado", "exibido"} /\ output_widget.outputs # <<>>) =>
    /\ Len(output_widget.outputs) = 1
    /\ \A i \in DOMAIN output_widget.outputs[1].rows :
         output_widget.outputs[1].rows[i].c[coluna_dropdown] = dropdown.value
    /\ IF coluna_sort = PyNone
       THEN output_widget.outputs[1].rows = DfHead(Selecionadas, linhas)
       ELSE /\ coluna_sort.s \in Range(heap[df].cols)
            /\ PrimeirasDecrescentes(output_widget.outputs[1].rows, Selecionadas,
                                     coluna_sort.s, linhas)

\* position of the first row of the table holding v in the dropdown column
PrimeiraLinha(v) ==
  CHOOSE k \in DOMAIN heap[df].rows :
    /\ heap[df].rows[k].c[coluna_dropdown] = v
    /\ \A m \in 1..(k - 1) : heap[df].rows[m].c[coluna_dropdown] # v

RECURSIVE CadaUmaVez(_, _, _)
CadaUmaVez(ks, i, acc) ==
  IF i > Len(ks) THEN acc
  ELSE CadaUmaVez(ks, i + 1, IF ks[i] \in Range(acc) THEN acc ELSE Append(acc, ks[i]))

\* positions of the records of the table t whose service is sv, in order
RECURSIVE DoServico(_, _, _)
DoServico(t, sv, i) ==
  IF i > Len(t.rows) THEN <<>>
  ELSE (IF t.rows[i].c[ColServico] = sv THEN <<i>> ELSE <<>>) \o DoServico(t, sv, i + 1)

\* the result r holds, row by row, the records of t at the positions pos:
\* same label, same value in every column of t, an integer under each key
MesmosRegistros(r, t, pos, ks) ==
  /\ Len(r.rows) = Len(pos)
  /\ \A i \in DOMAIN r.rows :
       /\ r.rows[i].idx = t.rows[pos[i]].idx
       /\ DOMAIN r.rows[i].c = Range(r.cols)
       /\ \A x \in Range(t.cols) : r.rows[i].c[x] = t.rows[pos[i]].c[x]
       /\ \A j \in DOMAIN ks : r.rows[i].c[ks[j]] \in Int

\* C20: the table calcula_interacoes returns holds exactly the records of
\* df with the given service, in input order, with the columns of df, then
\* one integer column per requested key, then interacoes_calculadas, and
\* no temp_metrics column.
C20_TabelaDevolvida ==
  (faseI = "calcula_interacoes" /\ retorno.t = "ret") =>
    /\ ColTemp \notin Range(heap[retorno.v].cols)
    /\ heap[retorno.v].cols = heap[df].cols \o CadaUmaVez(keys, 1, <<>>) \o <<ColInter>>
    /\ MesmosRegistros(heap[retorno.v], heap[df], DoServico(heap[df], service, 1), keys)

C20_Witness ==
  /\ faseI = "calcula_interacoes"
  /\ retorno.t = "ret"
  /\ service = "twitter"
  /\ keys = <<<<"b">>, <<"a">>>>
  /\ Len(heap[df].rows) = 2
  /\ heap[df].rows[1].c[ColServico] = "facebook"
  /\ heap[df].rows[2].c[ColServico] = "twitter"
  /\ heap[df].rows[2].c[ColManif] = PyDict(<<<<<<"a">>, PyInt(3)>>, <<<<"b">>, PyStr(<<"7">>)>>>>)
  /\ heap[retorno.v].cols = <<ColServico, ColManif, <<"b">>, <<"a">>, ColInter>>
  /\ Len(heap[retorno.v].rows) = 1
  /\ heap[retorno.v].rows[1].idx = 1
  /\ heap[retorno.v].rows[1].c[<<"b">>] = 7
  /\ heap[retorno.v].rows[1].c[<<"a">>] = 3

\* stored values that are no number: the text 'abc' and null
NaoNumericos == {PyStr(<<"a", "b", "c">>), PyNone}

\* the mapping a raw field decodes to, as its items (none for other fields)
MapaDecodificado(raw) ==
  IF raw.t = "dict" THEN raw.d
  ELSE IF raw.t = "str" /\ json_loads(raw.s).ok /\ json_loads(raw.s).v.t = "dict"
  THEN json_loads(raw.s).v.d
  ELSE <<>>

\* the field decodes to a mapping with a non-numeric value at a requested key
ValorNaoNumerico(raw, ks) ==
  \E j \in DOMAIN ks :
    /\ DictHas(MapaDecodificado(raw), ks[j])
    /\ DictGet(MapaDecodificado(raw), ks[j], PyInt(0)) \in NaoNumericos

\* extract of the raw field as the table operation of the last step calls it
ExtraiDoPasso(raw) ==
  IF faseI = "process_service" THEN extract_metrics(raw, keys)
  ELSE extrai_metricas(raw, keys)

\* C21: when a record of the requested service decodes to a mapping holding
\* a non-numeric value ('abc' or null) at a requested key, extract raises
\* for that record (ValueError or TypeError, no zero-fill), and
\* calcula_interacoes / process_service end with an error raised by extract
\* and return no table.
C21_CoercaoNaoGuardada ==
  (faseI \in {"calcula_interacoes", "process_service"}
     /\ \E i \in DOMAIN heap[df].rows :
          /\ heap[df].rows[i].c[ColServico] = service
          /\ ValorNaoNumerico(heap[df].rows[i].c[ColManif], keys)) =>
    /\ retorno.t = "raise"
    /\ DOMAIN heap = {df}
    /\ \A i \in DOMAIN heap[df].rows :
         ValorNaoNumerico(heap[df].rows[i].c[ColManif], keys) =>
           /\ ExtraiDoPasso(heap[df].rows[i].c[ColManif]).t = "raise"
           /\ ExtraiDoPasso(heap[df].rows[i].c[ColManif]).exc \in {"ValueError", "TypeError"}
    /\ \E i \in DOMAIN heap[df].rows :
         /\ heap[df].rows[i].c[ColServico] = service
         /\ retorno = ExtraiDoPasso(heap[df].rows[i].c[ColManif])

C21_Witness ==
  /\ faseI = "process_service"
  /\ service = "twitter"
  /\ keys = <<<<"a">>, <<"b">>>>
  /\ Len(heap[df].rows) = 2
  /\ heap[df].rows[1].c[ColServico] = "twitter"
  /\ heap[df].rows[1].c[ColManif] = PyDict(<<<<<<"a">>, PyInt(3)>>, <<<<"b">>, PyStr(<<"7">>)>>>>)
  /\ heap[df].rows[2].c[ColServico] = "twitter"
  /\ heap[df].rows[2].c[ColManif] = PyStr(json_dumps(PyDict(<<<<<<"b">>, PyNone>>>>)))
  /\ retorno = Raise("TypeError")
  /\ DOMAIN heap = {df}

(***************************************************************************)
(* ProcessamentoMetricas.plota_grafico_ocorrencias_df.  The table is       *)
(* heap[df]; annotate and log_scale are the arguments of the call; the     *)
(* chart is kept in figura.                                                *)
(***************************************************************************)
\* df[coluna].value_counts(): the number of rows of each value
ValueCounts(rows, col) ==
  {[valor |-> v, n |-> GroupSize(rows, col, v)] : v \in {rows[i].c[col] : i \in DOMAIN rows}}

\* .sort_values(): ascending counts, equal counts in any order
SortedCounts(S) ==
  {s \in [1..Cardinality(S) -> S] :
     /\ \A i, j \in DOMAIN s : i # j => s[i] # s[j]
     /\ \A i \in 1..(Len(s) - 1) : s[i].n <= s[i + 1].n}

\* series.max()
SeriesMax(series) ==
  CHOOSE m \in {series[i].n : i \in DOMAIN series} : \A i \in DOMAIN series : series[i].n <= m

\* the local x_max after the block `if annotate:` : bound only inside it
XMaxApos(series, ann) ==
  IF ann THEN [bound |-> TRUE, v |-> SeriesMax(series)] ELSE [bound |-> FALSE]

\* ax.text for every bar, inside `if annotate:`
AnotacoesDe(series, ann) ==
  IF ann THEN [i \in DOMAIN series |-> series[i].n] ELSE <<>>

\* the chart with its bars and annotations, before plt.xlim
GraficoSemLimite(series, log, ann) ==
  [barras |-> series, logx |-> log, anotacoes |-> AnotacoesDe(series, ann),
   xlim |-> "auto", mostrado |-> FALSE]

\* plt.xlim(right=x_max * 18) or plt.xlim(right=x_max * 1.2), then the
\* labels and plt.show(); reading the unbound x_max raises
GraficoComLimite(g, xmax, log) ==
  IF ~xmax.bound
  THEN [out |-> Raise("UnboundLocalError"), fig |-> g]
  ELSE [out |-> Ret(PyNone),
        fig |-> [g EXCEPT !.xlim = IF log THEN Frac(xmax.v * 18, 1) ELSE Frac(xmax.v * 6, 5),
                          !.mostrado = TRUE]]

\* the call once series = df[coluna].value_counts().sort_values() is there
plota_grafico_ocorrencias_df(series, log, ann) ==
  GraficoComLimite(GraficoSemLimite(series, log, ann), XMaxApos(series, ann), log)

\* tables of one to MaxLinhas records, each with its monitoramento
TabelaO(regs) ==
  [cols |-> <<ColTopico>>,
   rows |-> [i \in DOMAIN regs |-> [idx |-> i - 1, c |-> [x \in {ColTopico} |-> regs[i]]]]]

\* no component but the charts of the processors is in use
SoGraficos ==
  /\ ForaM
  /\ ForaC
  /\ ForaD
  /\ ForaW
  /\ keys = <<>>
  /\ service = ""
  /\ faseI = "fora"
  /\ retorno = SemResultado
  /\ annotate = FALSE
  /\ log_scale = FALSE
  /\ titulo_padrao = SemResultado

InitO ==
  /\ SoGraficos
  /\ df = 1
  /\ \E n \in 1..MaxLinhas : \E regs \in [1..n -> {"T1", "T2", "T3"}] :
       heap = <<TabelaO(regs)>>
  /\ faseG = "pronto"

\* the call made with (log, ann) ends with r
FicaO(r, log, ann) ==
  /\ retorno' = r.out
  /\ figura' = r.fig
  /\ annotate' = ann
  /\ log_scale' = log
  /\ faseG' = "plota_grafico_ocorrencias_df"
  /\ UNCHANGED <<heap, titulo_padrao, monitoramento, faseD, varsM, varsI, varsC, varsW>>

PlotaGraficoOcorrenciasDf ==
  /\ faseG = "pronto"
  /\ \E coluna \in {ColTopico, ColAusente} : \E log \in BOOLEAN : \E ann \in BOOLEAN :
       IF coluna \notin Range(heap[df].cols)
       THEN FicaO([out |-> Raise("KeyError"), fig |-> SemFigura], log, ann)
       ELSE \E series \in SortedCounts(ValueCounts(heap[df].rows, coluna)) :
              FicaO(plota_grafico_ocorrencias_df(series, log, ann), log, ann)

NextO == PlotaGraficoOcorrenciasDf

SpecO == InitO /\ [][NextO]_vars

\* C22: plota_grafico_ocorrencias_df on a column of df completes for both
\* values of annotate: the chart is shown, with one annotation per bar when
\* annotate is True and none when it is False, and with the x limit set
\* from the maximum count (18 times it on a log scale, 1.2 times otherwise).
C22_CompletaSemAnotar ==
  (faseG = "plota_grafico_ocorrencias_df" /\ retorno # Raise("KeyError")) =>
    /\ retorno.t = "ret"
    /\ figura.mostrado
    /\ Len(figura.anotacoes) = (IF annotate THEN Len(figura.barras) ELSE 0)
    /\ figura.xlim = IF log_scale THEN Frac(SeriesMax(figura.barras) * 18, 1)
                     ELSE Frac(SeriesMax(figura.barras) * 6, 5)

(***************************************************************************)
(* data_process_baoba_project: the class statement of MetricsProcessor     *)
(* and plot_interactions_by_service_horizontal.  A default argument is     *)
(* evaluated once, when the def statement runs in the class body;          *)
(* titulo_padrao is the default title bound then.                          *)
(***************************************************************************)
PrefixoTitulo == "Interações por Serviço - "

\* the name is not bound in the namespace the file is executed in
SemNome == [t |-> "unbound"]

\* the def statement of line 223: 'Interações por Serviço - ' + monitoramento
\* reads the global name, env being its binding
DefaultTitle(env) ==
  IF env = SemNome THEN Raise("NameError") ELSE Ret(<<PrefixoTitulo, env.s>>)

\* the title of the call: the argument, or the default bound at definition
TituloUsado(title, padrao, mon) == IF title = PyNone THEN padrao ELSE title.s

\* groupby('servico.keyword')['interacoes'].sum() of the rows
TotaisPorServico(rows) ==
  {[valor |-> sv, n |-> GroupSum(rows, ColServico, sv, ColInteracoesDia, 1)] :
     sv \in {rows[i].c[ColServico] : i \in DOMAIN rows}}

\* the chart of the totals, in ascending order; with no service the maximum
\* is nan and plt.xlim refuses it
BarrasPorServico(totais, titulo) ==
  IF Len(totais) = 0
  THEN [out |-> Raise("ValueError"),
        fig |-> [titulo |-> titulo, barras |-> totais, mostrado |-> FALSE]]
  ELSE [out |-> Ret(PyNone),
        fig |-> [titulo |-> titulo, barras |-> totais, mostrado |-> TRUE]]

\* title is PyNone when the call gives none
plot_interactions_by_service_horizontal(totais, mon, title, padrao) ==
  BarrasPorServico(totais, TituloUsado(title, padrao, mon))

RegistrosP ==
  {[topico |-> tp, servico |-> sv, inter |-> n] :
     tp \in {"T1", "T2"}, sv \in {"twitter", "facebook"}, n \in {0, MaxValor}}

TabelaP(regs) ==
  [cols |-> <<ColTopico, ColServico, ColInteracoesDia>>,
   rows |-> [i \in DOMAIN regs |->
               [idx |-> i - 1,
                c |-> [x \in {ColTopico, ColServico, ColInteracoesDia} |->
                         IF x = ColTopico THEN regs[i].topico
                         ELSE IF x = ColServico THEN regs[i].servico
                         ELSE regs[i].inter]]]]

InitP ==
  /\ SoGraficos
  /\ df = 1
  /\ \E n \in 0..2 : \E regs \in [1..n -> RegistrosP] : heap = <<TabelaP(regs)>>
  /\ faseG = "modulo"

\* the file is executed: by import, where the name monitoramento is not
\* bound, or in a namespace that binds it
FicaDefinida(r) ==
  /\ retorno' = IF r.t = "raise" THEN r ELSE Ret(PyNone)
  /\ titulo_padrao' = IF r.t = "raise" THEN titulo_padrao ELSE PyStr(r.v)
  /\ faseG' = IF r.t = "raise" THEN "falhou" ELSE "definida"
  /\ UNCHANGED <<heap, annotate, log_scale, varsM, varsI, varsC, varsD, varsW>>

DefineMetricsProcessor ==
  /\ faseG = "modulo"
  /\ \E env \in {SemNome, PyStr("T1"), PyStr("T2")} : FicaDefinida(DefaultTitle(env))

FicaP(r, mon, nome) ==
  /\ retorno' = r.out
  /\ figura' = r.fig
  /\ monitoramento' = mon
  /\ faseG' = nome
  /\ UNCHANGED <<heap, annotate, log_scale, titulo_padrao, faseD,
                 varsM, varsI, varsC, varsW>>

\* a call that gives no title
PlotInteractionsSemTitle ==
  /\ faseG = "definida"
  /\ \E mon \in {"T1", "T2"} :
       \E totais \in SortedCounts(TotaisPorServico(SelectRows(heap[df].rows, ColTopico, mon, 1))) :
         FicaP(plot_interactions_by_service_horizontal(totais, mon, PyNone, titulo_padrao.s),
               mon, "chamada_sem_title")

\* a call that gives its title
PlotInteractionsComTitle ==
  /\ faseG = "definida"
  /\ \E mon \in {"T1", "T2"} :
       \E totais \in SortedCounts(TotaisPorServico(SelectRows(heap[df].rows, ColTopico, mon, 1))) :
         FicaP(plot_interactions_by_service_horizontal(totais, mon, PyStr(<<"Titulo">>),
                                                       titulo_padrao.s),
               mon, "chamada_com_title")

NextP == DefineMetricsProcessor \/ PlotInteractionsSemTitle \/ PlotInteractionsComTitle

SpecP == InitP /\ [][NextP]_vars

\* C23: defining the class MetricsProcessor succeeds, and a call of
\* plot_interactions_by_service_horizontal that gives no title puts the
\* title 'Interações por Serviço - ' followed by the monitoramento of that
\* call on the chart.
C23_TituloDaChamada ==
  /\ faseG # "modulo" => (faseG # "falhou" /\ titulo_padrao # SemResultado)
  /\ faseG = "chamada_sem_title" => figura.titulo = <<PrefixoTitulo, monitoramento>>

(***************************************************************************)
(* ProcessamentoMetricas: the daily grid plots                             *)
(* plota_grid_graficos_interacoes_e_ocorrencias_estilo_linha and           *)
(* ..._area_interativo.  conv is the column DataSomenteDia, row by row;    *)
(* the two pivot tables are kept in figura.                                *)
(***************************************************************************)
\* pd.to_datetime(df_copy[date_col], errors='coerce').dt.date, row by row
DataSomenteDia(rows) == [i \in DOMAIN rows |-> to_datetime(rows[i].c[ColData], TRUE).v]

\* the rows of the group (d, tp) of groupby(['DataSomenteDia', monitoramento_col])
DoGrupo(rows, conv, d, tp) ==
  {i \in DOMAIN rows : conv[i] = d /\ rows[i].c[ColTopico] = tp}

\* the group keys: rows with a missing day belong to no group
ChavesDoGrid(rows, conv) ==
  {<<conv[i], rows[i].c[ColTopico]>> : i \in {j \in DOMAIN rows : conv[j] # NaT}}

\* Interacoes=(interacoes_col, 'sum') over the rows of the set I
RECURSIVE SomaDoGrupo(_, _, _)
SomaDoGrupo(rows, I, i) ==
  IF i > Len(rows) THEN 0
  ELSE (IF i \in I THEN rows[i].c[ColInteracoesDia] ELSE 0) + SomaDoGrupo(rows, I, i + 1)

\* variant: the interactions are counted, not summed
AgregadoContado(rows, conv, k, values) == Cardinality(DoGrupo(rows, conv, k[1], k[2]))

\* the aggregated value of the group k: Ocorrencias is its size,
\* Interacoes the sum of its interactions
Agregado(rows, conv, k, values) ==
  IF values = "Ocorrencias" THEN Cardinality(DoGrupo(rows, conv, k[1], k[2]))
  ELSE SomaDoGrupo(rows, DoGrupo(rows, conv, k[1], k[2]), 1)

\* the column labels of the pivot, in order
ColunasDoPivot(chaves) == SelectSeq(<<"T1", "T2">>, LAMBDA tp : \E k \in chaves : k[2] = tp)

\* df_grouped.pivot(index='DataSomenteDia', columns=monitoramento_col,
\* values=...).fillna(0): a pair that is no group holds 0
Pivot(rows, conv, chaves, values) ==
  [index |-> SortDates({k[1] : k \in chaves}),
   columns |-> ColunasDoPivot(chaves),
   cel |-> [d \in {k[1] : k \in chaves} |->
              [tp \in {k[2] : k \in chaves} |->
                 IF <<d, tp>> \in chaves THEN Agregado(rows, conv, <<d, tp>>, values)
                 ELSE 0]]]

\* the two pivot tables, not yet drawn
Pivots(rows, conv) ==
  [occ |-> Pivot(rows, conv, ChavesDoGrid(rows, conv), "Ocorrencias"),
   int |-> Pivot(rows, conv, ChavesDoGrid(rows, conv), "Interacoes"),
   mostrado |-> FALSE]

\* matplotlib: DataFrame.plot has nothing to draw for a pivot without columns
GridLinha(g) ==
  IF g.occ.columns = <<>> THEN [out |-> Raise("TypeError"), fig |-> g]
  ELSE [out |-> Ret(PyNone), fig |-> [g EXCEPT !.mostrado = TRUE]]

\* plotly: one trace per column, none for a pivot without columns
GridArea(g) == [out |-> Ret(PyNone), fig |-> [g EXCEPT !.mostrado = TRUE]]

plota_grid_estilo_linha(rows) == GridLinha(Pivots(rows, DataSomenteDia(rows)))

plota_grid_area_interativo(rows) == GridArea(Pivots(rows, DataSomenteDia(rows)))

RegistrosG ==
  {[data |-> dt, topico |-> tp, inter |-> n] :
     dt \in Datas, tp \in {"T1", "T2"}, n \in {1, MaxValor}}

InitG ==
  /\ SoGraficos
  /\ df = 1
  /\ \E n \in 0..MaxLinhas : \E regs \in [1..n -> RegistrosG] :
       heap = <<TabelaDia(<<ColData, ColTopico, ColConteudo, ColInteracoesDia>>, regs)>>
  /\ faseG = "pronto"

FicaG(r, nome) ==
  /\ retorno' = r.out
  /\ figura' = r.fig
  /\ faseG' = nome
  /\ UNCHANGED <<heap, annotate, log_scale, titulo_padrao, monitoramento, faseD,
                 varsM, varsI, varsC, varsW>>

PlotaGridEstiloLinha ==
  /\ faseG = "pronto"
  /\ FicaG(plota_grid_estilo_linha(heap[df].rows), "grid_estilo_linha")

PlotaGridAreaInterativo ==
  /\ faseG = "pronto"
  /\ FicaG(plota_grid_area_interativo(heap[df].rows), "grid_area_interativo")

NextG == PlotaGridEstiloLinha \/ PlotaGridAreaInterativo

SpecG == InitG /\ [][NextG]_vars

\* the day a date text stands for; only these two texts are valid dates
DiaValido(x) ==
  IF x = PyStr(Dia14) THEN Timestamp(2025, 3, 14)
  ELSE IF x = PyStr(Dia02) THEN Timestamp(2025, 3, 2)
  ELSE NaT

\* the records of the table with day d and topic tp
RegistrosDe(d, tp) ==
  {i \in DOMAIN heap[df].rows :
     /\ DiaValido(heap[df].rows[i].c[ColData]) = d
     /\ heap[df].rows[i].c[ColTopico] = tp}

RECURSIVE SomaInteracoes(_)
SomaInteracoes(I) ==
  IF I = {} THEN 0
  ELSE heap[df].rows[CHOOSE i \in I : TRUE].c[ColInteracoesDia]
         + SomaInteracoes(I \ {CHOOSE i \in I : TRUE})

RECURSIVE SomaCelulas(_, _)
SomaCelulas(p, K) ==
  IF K = {} THEN 0
  ELSE p.cel[(CHOOSE k \in K : TRUE)[1]][(CHOOSE k \in K : TRUE)[2]]
         + SomaCelulas(p, K \ {CHOOSE k \in K : TRUE})

ComDataValida == {i \in DOMAIN heap[df].rows : DiaValido(heap[df].rows[i].c[ColData]) # NaT}

C24_WitnessDoisRegistros ==
  /\ faseG = "grid_estilo_linha"
  /\ figura.mostrado
  /\ Len(heap[df].rows) = 3
  /\ figura.occ.index = <<Timestamp(2025, 3, 14)>>
  /\ figura.occ.columns = <<"T1">>
  /\ figura.occ.cel[Timestamp(2025, 3, 14)]["T1"] = 2
  /\ figura.int.cel[Timestamp(2025, 3, 14)]["T1"] = MaxValor + 1
  /\ heap[df].rows[2].c[ColData] = PyStr(Dia30Fev)
  /\ heap[df].rows[2].c[ColTopico] = "T1"

(***************************************************************************)
(* Claims on the fields of the comparator over sequences of calls.         *)
(***************************************************************************)
\* C25: whatever calls of calcular_diferencas, preparar_longos,
\* plotar_ocorrencias and plotar_interacoes were made on a comparator,
\* df_occ_melt is set if and only if df_int_melt is set, and when either
\* is set df_merged is set.
C25_LongosJuntos ==
  /\ df_occ_melt # 0 <=> df_int_melt # 0
  /\ (df_occ_melt # 0 \/ df_int_melt # 0) => df_merged # 0

\* the long tables and the comparison table are set and a chart was saved
C25_Witness ==
  /\ faseC = "construido"
  /\ df_occ_melt # 0
  /\ df_int_melt # 0
  /\ df_merged # 0
  /\ retorno = RetCaminho(ArquivoInteracoes)
  /\ figura # SemFigura

\* a call that raised left the three fields unset
C25_WitnessFalha ==
  /\ faseC = "construido"
  /\ retorno.t = "raise"
  /\ df_merged = 0
  /\ df_occ_melt = 0
  /\ df_int_melt = 0

(***************************************************************************)
(* The comparator with its field df_atual reassigned between calls.        *)
(***************************************************************************)
\* the snapshots a caller assigns: one topic, two topics, no interactions
NovosAtuais ==
  Snapshots({<<"T1">>}, Grade)
    \cup {Snapshot(<<"T1", "T2">>, <<<<1, MaxCont + 2>>, <<0, 0>>>>), SemInteracoes}

InitR ==
  /\ ForaG
  /\ ForaW
  /\ ForaM
  /\ ForaI
  /\ ForaD
  /\ keys = <<>>
  /\ \E a \in NovosAtuais :
       heap = <<a, Snapshot(<<"T1", "T2">>, <<<<1, 1>>, <<1, MaxCont + 2>>>>)>>
  /\ tab_atual = 1
  /\ tab_anterior = 2
  /\ df_atual = 0
  /\ df_anterior = 0
  /\ df_merged = 0
  /\ df_occ_melt = 0
  /\ df_int_melt = 0
  /\ retorno = SemResultado
  /\ faseC = "inicio"

FicaReatribuir(r) ==
  FicaC(r.heap, r.ref, df_anterior, df_merged, df_occ_melt, df_int_melt, Ret(0))

\* comparador.df_atual = novo, the new table with the columns of df_atual
ReatribuirAtual ==
  /\ faseC = "construido"
  /\ \E novo \in NovosAtuais :
       FicaReatribuir(Alloc(heap, TRename(novo, {<<ColOcc, ColOcc \o SufAtual>>,
                                                 <<ColInt, ColInt \o SufAtual>>})))
  /\ UNCHANGED <<faseC, varsM, varsI, varsD, varsW, varsG>>

NextR ==
  \/ Construir
  \/ CalcularDiferencas
  \/ PrepararLongos
  \/ PlotarOcorrencias
  \/ PlotarInteracoes
  \/ ReatribuirAtual

SpecR == InitR /\ [][NextR]_vars

\* the field keeps its table over the step
Mantem(ref) ==
  /\ ref' = 0 <=> ref = 0
  /\ ref # 0 => heap'[ref'] = heap[ref]

\* the long tables preparar_longos builds from the comparison table m of h
OcorrenciasDe(h, m) ==
  Longo(h, m, ColOcc \o SufAtual, ColOcc \o SufAnterior,
        ColDiffOcc, ColPercOcc, ColOcorrencias)

InteracoesDe(h, m) ==
  Longo(h, m, ColInt \o SufAtual, ColInt \o SufAnterior,
        ColDiffInt, ColPercInt, ColInteracoes)

\* the table a call returned
TabelaDe(r) == r.heap[r.out.v]

\* the long tables o and i are those of the comparison table m
EmDia(h, m, o, i) ==
  /\ m # 0
  /\ o # 0
  /\ i # 0
  /\ TabelaDe(OcorrenciasDe(h, m)) = h[o]
  /\ TabelaDe(InteracoesDe(h, m)) = h[i]

\* neither long table is that of the df_merged of now
Defasados ==
  /\ df_merged # 0
  /\ df_occ_melt # 0
  /\ df_int_melt # 0
  /\ TabelaDe(OcorrenciasDe(heap, df_merged)) # heap[df_occ_melt]
  /\ TabelaDe(InteracoesDe(heap, df_merged)) # heap[df_int_melt]

\* C26: once the long tables exist, plotar_ocorrencias and
\* plotar_interacoes leave df_merged, df_occ_melt and df_int_melt as they
\* are and draw the long tables they find; calcular_diferencas leaves the
\* long tables as they are, whatever df_merged it builds; preparar_longos
\* brings the long tables up to date with df_merged.
C26_LongosFicam ==
  [][(faseC = "construido" /\ df_occ_melt # 0 /\ df_int_melt # 0) =>
       /\ (PlotarOcorrencias \/ PlotarInteracoes) =>
            /\ Mantem(df_merged)
            /\ Mantem(df_occ_melt)
            /\ Mantem(df_int_melt)
       /\ PlotarOcorrencias =>
            figura'.barras = Barras(heap[df_occ_melt], ColOcorrencias, ColPercOcc)
       /\ PlotarInteracoes =>
            figura'.barras = Barras(heap[df_int_melt], ColInteracoes, ColPercInt)
       /\ CalcularDiferencas =>
            /\ Mantem(df_occ_melt)
            /\ Mantem(df_int_melt)
       /\ PrepararLongos => EmDia(heap', df_merged', df_occ_melt', df_int_melt')]_vars

\* df_atual was reassigned and calcular_diferencas called again: the chart
\* saved last shows the long table of before, not that of df_merged
C26_Witness ==
  /\ faseC = "construido"
  /\ Defasados
  /\ retorno = RetCaminho(ArquivoOcorrencias)
  /\ figura.barras = Barras(heap[df_occ_melt], ColOcorrencias, ColPercOcc)
  /\ figura.barras
       # Barras(TabelaDe(OcorrenciasDe(heap, df_merged)), ColOcorrencias, ColPercOcc)
  /\ Len(heap[df_merged].rows) = 2
  /\ Len(heap[df_occ_melt].rows) = 2

====
